---- MODULE Spec2Model ----
(***************************************************************************)
(* A model of the selective-diff core of cursor-latex:                     *)
(*   - src/src/lib/latexDiff.js      the patch applicator and validator    *)
(*   - src/unnamed/part_007          simpleAgent.js: Document Store, Undo  *)
(*                                   Log and the askAI turn                *)
(*   - src/src/components/*.js       the chat components driving a turn    *)
(*   - src/unnamed/part_000          useAI.js: the streaming hook of       *)
(*                                   AIChat.js and its cancellation        *)
(*   - src/src/lib/ai/latexAssistant.js  the conversation history          *)
(*                                                                         *)
(* Texts are sequences of lexemes (one-character words, "\n", and the      *)
(* tokens of the patch grammar), so that split('\n'), join('\n') and the   *)
(* regular expressions of the parser are computed on them.                 *)
(***************************************************************************)
EXTENDS Integers, Sequences, FiniteSets, TLC

VARIABLES
    \* ---- pure-function harness (latexDiff.js called on drawn inputs)
    originalContent,   \* the text handed to applyLatexDiffs
    diffBlocks,        \* the batch handed to applyLatexDiffs
    applied,           \* "no" before the call, "yes" after it
    result,            \* the text applyLatexDiffs returned
    segments,          \* the pieces of the text handed to parseLatexDiff
    markers,           \* what hasLatexDiffs and hasStreamingLatexDiffs returned
    validation,        \* what validateDiffBlock returned for each record
    changes,           \* what previewLatexDiffs returned, and whether before or after the apply
    stream,            \* the bytes of an event stream and how many of them have been read
    chunkCalls,        \* the calls of onChunk: [content, fullResponse]
    \* ---- simpleAgent.js (src/unnamed/part_007): Document Store and Undo Log
    documentContent,   \* let documentContent
    changeCallback,    \* let changeCallback: "null" or the observer registered
    undoHistory,       \* let undoHistory: entries [content, description]
    \* ---- one askAI call in flight
    pc,                \* "idle", "fetching" (await fetch) or "reading" (await reader.read())
    fullResponse,      \* let fullResponse: the deltas accumulated so far
    pending,           \* the deltas the model call has still to deliver
    prompt,            \* the text line-numbered into the request of the call in flight
    \* ---- the chat component that calls askAI (LatexEditor.js, lines 125-601)
    messages,          \* useState messages
    isLoading,         \* useState isLoading
    error,             \* useState error
    assistantMessageId, \* the running handler's assistantMessageId
    \* ---- the chat component that streams through useAI (AIChat.js, useAI.js)
    isStreaming,          \* AIChat.js: useState isStreaming
    streamingMessageRef,  \* AIChat.js: streamingMessageRef.current, the chunks accumulated
    abortControllerRef,   \* useAI.js: abortControllerRef.current, 0 for null or the request it was made for
    aborted,              \* the requests whose AbortController has been aborted
    conversationHistory,  \* latexAssistant.js: this.conversationHistory
    streams,              \* the model requests issued, in order, each with its stream
    \* ---- bookkeeping of the checks
    lastCall,          \* the last call of the module's interface and what it did
    trail,             \* the texts D0..D(k-1) that successive changes replaced
    calls              \* number of calls that can grow the state, capped by MaxCalls

pureVars == <<originalContent, diffBlocks, applied, result, segments, markers, validation,
              changes, stream, chunkCalls>>
storeVars == <<documentContent, changeCallback, undoHistory>>
turnVars == <<pc, fullResponse, pending, prompt>>
chatVars == <<messages, isLoading, error, assistantMessageId>>
useVars == <<isStreaming, streamingMessageRef, abortControllerRef, aborted,
             conversationHistory, streams>>
bookVars == <<lastCall, trail, calls>>
vars == <<pureVars, storeVars, turnVars, chatVars, useVars, bookVars>>

(***************************************************************************)
(* Texts                                                                   *)
(***************************************************************************)
NL == "\n"

Min(a, b) == IF a < b THEN a ELSE b
Max(a, b) == IF a > b THEN a ELSE b

\* String.prototype.split('\n'): always at least one piece.
RECURSIVE SplitFrom(_, _, _)
SplitFrom(s, i, cur) ==
    IF i > Len(s) THEN <<cur>>
    ELSE IF s[i] = NL THEN <<cur>> \o SplitFrom(s, i + 1, <<>>)
    ELSE SplitFrom(s, i + 1, Append(cur, s[i]))

split(s) == SplitFrom(s, 1, <<>>)

\* Array.prototype.join('\n'): the empty array joins to the empty text.
RECURSIVE join(_)
join(ls) ==
    IF ls = <<>> THEN <<>>
    ELSE IF Len(ls) = 1 THEN ls[1]
    ELSE ls[1] \o <<NL>> \o join(Tail(ls))

\* Array.prototype.splice(start, deleteCount, ...items) on a copy: start and
\* deleteCount are clamped to the array as ECMAScript prescribes.
splice(lines, start, deleteCount, items) ==
    LET len == Len(lines)
        s   == IF start < 0 THEN Max(len + start, 0) ELSE Min(start, len)
        d   == Max(0, Min(deleteCount, len - s))
    IN  SubSeq(lines, 1, s) \o items \o SubSeq(lines, s + d + 1, len)

(***************************************************************************)
(* latexDiff.js: the applicator                                            *)
(***************************************************************************)
\* insertContent ? insertContent.split('\n') : []
insertLines(insertContent) ==
    IF insertContent = <<>> THEN <<>> ELSE split(insertContent)

\* The count taken as it stands, an unset count removing nothing.
orOneNoDefault(deleteCount) == deleteCount

\* deleteCount || 1
orOne(deleteCount) == IF deleteCount = 0 THEN 1 ELSE deleteCount

\* [...diffBlocks].sort((a, b) => b.line - a.line): a stable sort, highest
\* line first; records of equal line keep their input order.
\* The sort with records of equal line taken latest first.
insertDescTiesReversed(sorted, b) ==
    LET keep == {i \in 1..Len(sorted) : sorted[i].line > b.line}
        k    == IF keep = {} THEN 0 ELSE CHOOSE i \in keep : \A j \in keep : j <= i
    IN  SubSeq(sorted, 1, k) \o <<b>> \o SubSeq(sorted, k + 1, Len(sorted))

insertDesc(sorted, b) ==
    LET keep == {i \in 1..Len(sorted) : sorted[i].line >= b.line}
        k    == IF keep = {} THEN 0 ELSE CHOOSE i \in keep : \A j \in keep : j <= i
    IN  SubSeq(sorted, 1, k) \o <<b>> \o SubSeq(sorted, k + 1, Len(sorted))

\* The batch taken in input order (no sort).
sortDescInputOrder(blocks) == blocks

RECURSIVE sortDesc(_)
sortDesc(blocks) ==
    IF blocks = <<>> THEN <<>>
    ELSE insertDesc(sortDesc(SubSeq(blocks, 1, Len(blocks) - 1)), blocks[Len(blocks)])

\* The switch with the line used as a zero-based index as it stands.
applyBlockOffByOne(lines, block) ==
    CASE block.operation = "add" ->
           splice(lines, block.line, 0, insertLines(block.insertContent))
      [] block.operation = "replace" ->
           splice(lines, block.line, orOne(block.deleteCount),
                  insertLines(block.insertContent))
      [] block.operation = "delete" ->
           splice(lines, block.line, orOne(block.deleteCount), <<>>)
      [] OTHER -> lines

\* The switch taken only for a record whose range lies inside the text.
applyBlockRejecting(lines, block) ==
    LET zeroBasedLine == block.line - 1
        endLine == block.line + orOne(block.deleteCount) - 1
    IN  CASE block.operation = "add" /\ block.line <= Len(lines) + 1 ->
               splice(lines, zeroBasedLine, 0, insertLines(block.insertContent))
          [] block.operation = "replace" /\ endLine <= Len(lines) ->
               splice(lines, zeroBasedLine, orOne(block.deleteCount),
                      insertLines(block.insertContent))
          [] block.operation = "delete" /\ endLine <= Len(lines) ->
               splice(lines, zeroBasedLine, orOne(block.deleteCount), <<>>)
          [] OTHER -> lines

\* One turn of the for-loop of applyLatexDiffs: the switch on block.operation.
applyBlock(lines, block) ==
    LET zeroBasedLine == block.line - 1
    IN  CASE block.operation = "add" ->
               splice(lines, zeroBasedLine, 0, insertLines(block.insertContent))
          [] block.operation = "replace" ->
               splice(lines, zeroBasedLine, orOne(block.deleteCount),
                      insertLines(block.insertContent))
          [] block.operation = "delete" ->
               splice(lines, zeroBasedLine, orOne(block.deleteCount), <<>>)
          [] OTHER -> lines

RECURSIVE applySorted(_, _)
applySorted(lines, sortedBlocks) ==
    IF sortedBlocks = <<>> THEN lines
    ELSE applySorted(applyBlock(lines, Head(sortedBlocks)), Tail(sortedBlocks))

applyLatexDiffs(content, blocks) ==
    join(applySorted(split(content), sortDesc(blocks)))

\* Array.prototype.slice(start, end): both ends clamped to the array, a
\* negative one counted from its end.
slice(lines, start, end) ==
    LET len == Len(lines)
        from == IF start < 0 THEN Max(len + start, 0) ELSE Min(start, len)
        to   == IF end < 0 THEN Max(len + end, 0) ELSE Min(end, len)
    IN  SubSeq(lines, from + 1, to)

\* [...diffBlocks].sort((a, b) => a.line - b.line): a stable sort, lowest
\* line first; records of equal line keep their input order.
insertAsc(sorted, b) ==
    LET keep == {i \in 1..Len(sorted) : sorted[i].line <= b.line}
        k    == IF keep = {} THEN 0 ELSE CHOOSE i \in keep : \A j \in keep : j <= i
    IN  SubSeq(sorted, 1, k) \o <<b>> \o SubSeq(sorted, k + 1, Len(sorted))

RECURSIVE sortAsc(_)
sortAsc(blocks) ==
    IF blocks = <<>> THEN <<>>
    ELSE insertAsc(sortAsc(SubSeq(blocks, 1, Len(blocks) - 1)), blocks[Len(blocks)])

\* The change with the line used as a zero-based index as it stands.
previewChangeOffByOne(lines, block) ==
    LET count == orOne(block.deleteCount)
        taken == slice(lines, block.line, block.line + count)
    IN  [operation |-> block.operation,
         line |-> block.line,
         before |-> IF block.operation \in {"replace", "delete"} THEN taken ELSE <<>>,
         after |-> IF block.operation \in {"add", "replace"}
                   THEN insertLines(block.insertContent) ELSE <<>>,
         context |-> [before |-> slice(lines, Max(0, block.line - 2), block.line),
                      after |-> slice(lines, block.line + count, block.line + count + 2)]]

\* One turn of the for-loop of previewLatexDiffs: the change pushed for a record.
previewChange(lines, block) ==
    LET zeroBasedLine == block.line - 1
        count == orOne(block.deleteCount)
        taken == slice(lines, zeroBasedLine, zeroBasedLine + count)
    IN  [operation |-> block.operation,
         line |-> block.line,
         before |-> IF block.operation \in {"replace", "delete"} THEN taken ELSE <<>>,
         after |-> IF block.operation \in {"add", "replace"}
                   THEN insertLines(block.insertContent) ELSE <<>>,
         context |-> [before |-> slice(lines, Max(0, zeroBasedLine - 2), zeroBasedLine),
                      after |-> slice(lines, zeroBasedLine + count,
                                      zeroBasedLine + count + 2)]]

previewLatexDiffs(content, blocks) ==
    LET lines == split(content)
        sortedBlocks == sortAsc(blocks)
    IN  [i \in 1..Len(sortedBlocks) |-> previewChange(lines, sortedBlocks[i])]

\* validateDiffBlock: the list of errors, and valid = no error.
\* validateDiffBlock refusing the line one past the end of the text.
validateDiffBlockStrict(content, diffBlock) ==
    LET lines   == split(content)
        endLine == diffBlock.line + orOne(diffBlock.deleteCount) - 1
        e1 == IF diffBlock.line < 1 \/ diffBlock.line > Len(lines)
              THEN <<"out of range">> ELSE <<>>
        e2 == IF diffBlock.operation \in {"replace", "delete"} /\ endLine > Len(lines)
              THEN <<"cannot delete/replace">> ELSE <<>>
    IN  [valid |-> (e1 \o e2) = <<>>, errors |-> e1 \o e2]

validateDiffBlock(content, diffBlock) ==
    LET lines   == split(content)
        endLine == diffBlock.line + orOne(diffBlock.deleteCount) - 1
        e1 == IF diffBlock.line < 1 \/ diffBlock.line > Len(lines) + 1
              THEN <<"out of range">> ELSE <<>>
        e2 == IF diffBlock.operation \in {"replace", "delete"} /\ endLine > Len(lines)
              THEN <<"cannot delete/replace">> ELSE <<>>
    IN  [valid |-> (e1 \o e2) = <<>>, errors |-> e1 \o e2]

(***************************************************************************)
(* latexDiff.js on a reply.  A reply text is a sequence of lexemes: the    *)
(* fence ```, the words   "latex-diff" and "latex", "@@", " ", "\n", the   *)
(* key:value tokens of PairTokens and one-character words.  The regular    *)
(* expressions are matched on the lexemes as the regex engine matches them *)
(* on the characters: \s is " " or "\n", . is any lexeme but "\n", lazy    *)
(* quantifiers take the first position that lets the whole pattern match.  *)
(***************************************************************************)
SP == " "
FENCE == "~~~"    \* stands for the three backquotes of a fence
AT == "@@"

isSpace(t) == t = SP \/ t = NL

\* The key:value tokens of the texts, and pair.split on the colon with
\* isNaN(value) ? value : parseInt(value) on each.
PairTokens ==
    {"operation:add", "operation:replace", "operation:delete",
     "line:0", "line:1", "line:2", "line:3", "line:4", "line:5",
     "delete:0", "delete:1", "delete:2", "delete:3", "note:fix"}

pairKey(t) ==
    CASE t \in {"operation:add", "operation:replace", "operation:delete"} -> "operation"
      [] t \in {"line:0", "line:1", "line:2", "line:3", "line:4", "line:5"} -> "line"
      [] t \in {"delete:0", "delete:1", "delete:2", "delete:3"} -> "delete"
      [] OTHER -> "note"

\* A metadata value: a number, a string, or undefined.
num(n) == [defined |-> TRUE, isNum |-> TRUE, n |-> n, str |-> ""]
str(w) == [defined |-> TRUE, isNum |-> FALSE, n |-> 0, str |-> w]
undefined == [defined |-> FALSE, isNum |-> FALSE, n |-> 0, str |-> ""]

\* !value
falsy(v) == ~v.defined \/ (v.isNum /\ v.n = 0) \/ (~v.isNum /\ v.str = "")

\* The value as a field of the record.
fieldOf(v) == IF v.isNum THEN v.n ELSE v.str

pairValue(t) ==
    CASE t = "operation:add" -> str("add")
      [] t = "operation:replace" -> str("replace")
      [] t = "operation:delete" -> str("delete")
      [] t = "line:0" -> num(0)
      [] t = "line:1" -> num(1)
      [] t = "line:2" -> num(2)
      [] t = "line:3" -> num(3)
      [] t = "line:4" -> num(4)
      [] t = "line:5" -> num(5)
      [] t = "delete:0" -> num(0)
      [] t = "delete:1" -> num(1)
      [] t = "delete:2" -> num(2)
      [] t = "delete:3" -> num(3)
      [] OTHER -> str("fix")

\* The first index at or after i that holds no white space (Len + 1 if none).
RECURSIVE skipSpace(_, _)
skipSpace(s, i) ==
    IF i > Len(s) THEN Len(s) + 1
    ELSE IF isSpace(s[i]) THEN skipSpace(s, i + 1) ELSE i

\* The last index at or before i that holds no white space (0 if none).
RECURSIVE skipSpaceBack(_, _)
skipSpaceBack(s, i) ==
    IF i < 1 THEN 0
    ELSE IF isSpace(s[i]) THEN skipSpaceBack(s, i - 1) ELSE i

\* String.prototype.trim()
trim(s) == SubSeq(s, skipSpace(s, 1), skipSpaceBack(s, Len(s)))

\* ```latex-diff\s*\n@@ matched at i: the index of the opening @@, or 0.
openAt(s, i) ==
    IF i + 1 <= Len(s) /\ s[i] = FENCE /\ s[i + 1] = "latex-diff"
    THEN LET a == skipSpace(s, i + 2)
         IN  IF a <= Len(s) /\ a > i + 2 /\ s[a - 1] = NL /\ s[a] = AT THEN a ELSE 0
    ELSE 0

\* @@.*?@@ after the opening @@ at a: a later @@ on the same line.
closedOnLine(s, a) ==
    \E b \in (a + 1)..Len(s) :
        s[b] = AT /\ \A k \in (a + 1)..(b - 1) : s[k] # NL

\* /```latex-diff\s*\n@@.*?@@/g.test(content)
hasLatexDiffs(content) ==
    \E i \in 1..Len(content) :
        openAt(content, i) # 0 /\ closedOnLine(content, openAt(content, i))

\* hasStreamingLatexDiffs tests the same expression.
hasStreamingLatexDiffs(content) ==
    \E i \in 1..Len(content) :
        openAt(content, i) # 0 /\ closedOnLine(content, openAt(content, i))

\* \s*(.*?)\s*@@\s*\n([\s\S]*?)``` with the closing @@ at b, after the
\* opening @@ at a: between them white space, lexemes of one line, white
\* space; after b white space with a "\n" in it, and a fence further on.
closesAt(s, a, b) ==
    /\ s[b] = AT
    /\ \A k \in skipSpace(s, a + 1)..skipSpaceBack(s, b - 1) : s[k] # NL
    /\ \E n \in (b + 1)..(skipSpace(s, b + 1) - 1) : s[n] = NL
    /\ \E f \in (b + 1)..Len(s) : s[f] = FENCE

\* The closing @@ the lazy (.*?) stops at: the first one that lets the rest
\* of the expression match; 0 if there is none.
closeAt(s, a) ==
    LET bs == {b \in (a + 1)..Len(s) : closesAt(s, a, b)}
    IN  IF bs = {} THEN 0 ELSE CHOOSE b \in bs : \A c \in bs : b <= c

\* The fence the lazy ([\s\S]*?) stops at: the first one after b.
fenceAfter(s, b) ==
    CHOOSE f \in (b + 1)..Len(s) :
        s[f] = FENCE /\ \A g \in (b + 1)..(f - 1) : s[g] # FENCE

\* metadataStr.split(/\s+/): the runs of lexemes between white space.
RECURSIVE splitSpace(_, _, _)
splitSpace(s, i, cur) ==
    IF i > Len(s) THEN IF cur = <<>> THEN <<>> ELSE <<cur>>
    ELSE IF isSpace(s[i])
         THEN (IF cur = <<>> THEN <<>> ELSE <<cur>>) \o splitSpace(s, i + 1, <<>>)
         ELSE splitSpace(s, i + 1, Append(cur, s[i]))

\* Lines 30-38: metadata[key] of the pairs, the last pair of a key winning.
\* A pair is one run of lexemes: its key is the part before the first colon,
\* and lexemes glued behind a key:value token make its value a string that
\* is no number.
RECURSIVE metadataOf(_, _, _)
metadataOf(pairs, i, key) ==
    IF i < 1 THEN undefined
    ELSE IF pairs[i][1] \in PairTokens /\ pairKey(pairs[i][1]) = key
         THEN IF Len(pairs[i]) = 1 THEN pairValue(pairs[i][1]) ELSE str("glued")
         ELSE metadataOf(pairs, i - 1, key)

\* Lines 40-60: the record of one matched block, <<>> when it is discarded.
\* blockOf with no default for a delete: the count stays 0 when no delete
\* token is written.
blockOfNoDefault(metadataStr, code) ==
    LET pairs == splitSpace(metadataStr, 1, <<>>)
        operation == metadataOf(pairs, Len(pairs), "operation")
        line == metadataOf(pairs, Len(pairs), "line")
        delete == metadataOf(pairs, Len(pairs), "delete")
    IN  IF falsy(operation) \/ ~line.defined THEN <<>>
        ELSE <<[operation |-> fieldOf(operation),
                line |-> fieldOf(line),
                deleteCount |-> IF falsy(delete) THEN 0 ELSE fieldOf(delete),
                insertContent |-> trim(code)]>>

blockOf(metadataStr, code) ==
    LET pairs == splitSpace(metadataStr, 1, <<>>)
        operation == metadataOf(pairs, Len(pairs), "operation")
        line == metadataOf(pairs, Len(pairs), "line")
        delete == metadataOf(pairs, Len(pairs), "delete")
        isDelete == ~operation.isNum /\ operation.str = "delete"
    IN  IF falsy(operation) \/ ~line.defined THEN <<>>
        ELSE <<[operation |-> fieldOf(operation),
                line |-> fieldOf(line),
                deleteCount |-> IF falsy(delete)
                                THEN (IF isDelete THEN 1 ELSE 0)
                                ELSE fieldOf(delete),
                insertContent |-> trim(code)]>>

\* Lines 16-63: blockRegex.exec(content) from index i on, match after match.
\* parseFrom giving up at the first block that lacks operation or line.
RECURSIVE parseFromAborting(_, _)
parseFromAborting(s, i) ==
    IF i > Len(s) THEN <<>>
    ELSE LET a == openAt(s, i)
             b == IF a = 0 THEN 0 ELSE closeAt(s, a)
         IN  IF b = 0 THEN parseFromAborting(s, i + 1)
             ELSE LET f == fenceAfter(s, b)
                      r == blockOf(SubSeq(s, skipSpace(s, a + 1), skipSpaceBack(s, b - 1)),
                                   SubSeq(s, b + 1, f - 1))
                  IN  IF r = <<>> THEN <<>> ELSE r \o parseFromAborting(s, f + 1)

RECURSIVE parseFrom(_, _)
parseFrom(s, i) ==
    IF i > Len(s) THEN <<>>
    ELSE LET a == openAt(s, i)
             b == IF a = 0 THEN 0 ELSE closeAt(s, a)
         IN  IF b = 0 THEN parseFrom(s, i + 1)
             ELSE LET f == fenceAfter(s, b)
                  IN  blockOf(SubSeq(s, skipSpace(s, a + 1), skipSpaceBack(s, b - 1)),
                              SubSeq(s, b + 1, f - 1))
                      \o parseFrom(s, f + 1)

parseLatexDiff(content) == parseFrom(content, 1)

\* fullResponse.match(/```latex\n([\s\S]*?)\n```/): the first match, if any,
\* with its group 1.
latexMatch(content) ==
    LET ends(i) == {n \in (i + 3)..(Len(content) - 1) :
                       content[n] = NL /\ content[n + 1] = FENCE}
        starts == {i \in 1..(Len(content) - 2) :
                      /\ content[i] = FENCE
                      /\ content[i + 1] = "latex"
                      /\ content[i + 2] = NL
                      /\ ends(i) # {}}
    IN  IF starts = {} THEN <<>>
        ELSE LET i == CHOOSE j \in starts : \A k \in starts : j <= k
                 n == CHOOSE m \in ends(i) : \A k \in ends(i) : m <= k
             IN  <<[body |-> SubSeq(content, i + 3, n - 1)]>>

(***************************************************************************)
(* simpleAgent.js: Document Store and Undo Log.  An operation maps the     *)
(* module's state st = [documentContent, changeCallback, undoHistory] to   *)
(* the state after it; the fields notified (the texts handed to the        *)
(* observer), pushed (calls of addToUndoHistory), ret and threw record     *)
(* what the call did.                                                      *)
(***************************************************************************)
MAX_UNDO_HISTORY == 20

\* The push with no bound on the history.
addToUndoHistoryUnbounded(history, content, description) ==
    Append(history, [content |-> content, description |-> description])

\* The push keeping the first MAX_UNDO_HISTORY entries (slice(0, MAX)).
addToUndoHistoryKeepOldest(history, content, description) ==
    LET pushed == Append(history, [content |-> content, description |-> description])
    IN  IF Len(pushed) > MAX_UNDO_HISTORY
        THEN SubSeq(pushed, 1, MAX_UNDO_HISTORY) ELSE pushed

\* undoHistory.push(...); if longer than MAX_UNDO_HISTORY, slice(-MAX_UNDO_HISTORY).
addToUndoHistory(history, content, description) ==
    LET pushed == Append(history, [content |-> content, description |-> description])
    IN  IF Len(pushed) > MAX_UNDO_HISTORY
        THEN SubSeq(pushed, Len(pushed) - MAX_UNDO_HISTORY + 1, Len(pushed))
        ELSE pushed

\* initializeDocument starting a fresh undo history for the text it is given.
initializeDocumentClearing(st, content, onChangeCallback) ==
    [st EXCEPT !.documentContent = content, !.changeCallback = onChangeCallback,
               !.undoHistory = <<>>]

initializeDocument(st, content, onChangeCallback) ==
    [st EXCEPT !.documentContent = content, !.changeCallback = onChangeCallback]

\* setDocument pushing after the replacement: the entry holds the new text.
setDocumentPushAfter(st, newContent, addToHistory) ==
    LET record == addToHistory /\ st.documentContent # newContent
    IN  [st EXCEPT
          !.undoHistory = IF record
                          THEN addToUndoHistory(@, newContent, <<"Document replaced">>)
                          ELSE @,
          !.pushed = IF record THEN @ + 1 ELSE @,
          !.documentContent = newContent,
          !.notified = IF st.changeCallback # "null" THEN Append(@, newContent) ELSE @]

\* setDocument that records history whatever addToHistory says.
setDocumentAlwaysRecords(st, newContent, addToHistory) ==
    LET record == st.documentContent # newContent
    IN  [st EXCEPT
          !.undoHistory = IF record
                          THEN addToUndoHistory(@, st.documentContent, <<"Document replaced">>)
                          ELSE @,
          !.pushed = IF record THEN @ + 1 ELSE @,
          !.documentContent = newContent,
          !.notified = IF st.changeCallback # "null" THEN Append(@, newContent) ELSE @]

setDocument(st, newContent, addToHistory) ==
    LET record == addToHistory /\ st.documentContent # newContent
    IN  [st EXCEPT
          !.undoHistory = IF record
                          THEN addToUndoHistory(@, st.documentContent, <<"Document replaced">>)
                          ELSE @,
          !.pushed = IF record THEN @ + 1 ELSE @,
          !.documentContent = newContent,
          !.notified = IF st.changeCallback # "null" THEN Append(@, newContent) ELSE @]

applyDiffs(st, blocks) ==
    [setDocument(st, applyLatexDiffs(st.documentContent, blocks), TRUE) EXCEPT !.ret = "newContent"]

\* undoLastChange taking the oldest entry (shift) instead of the newest (pop).
undoLastChangeOldestFirst(st) ==
    IF st.undoHistory = <<>> THEN [st EXCEPT !.ret = "false"]
    ELSE LET lastEntry == st.undoHistory[1]
             popped == [st EXCEPT !.undoHistory = Tail(@)]
         IN  [setDocument(popped, lastEntry.content, FALSE) EXCEPT !.ret = "true"]

\* undoLastChange without its length check: pop() of an empty array gives
\* undefined, and reading lastEntry.description throws.
undoLastChangeUnguarded(st) ==
    IF st.undoHistory = <<>> THEN [st EXCEPT !.threw = TRUE]
    ELSE LET lastEntry == st.undoHistory[Len(st.undoHistory)]
             popped == [st EXCEPT !.undoHistory = SubSeq(@, 1, Len(@) - 1)]
         IN  [setDocument(popped, lastEntry.content, FALSE) EXCEPT !.ret = "true"]

undoLastChange(st) ==
    IF st.undoHistory = <<>> THEN [st EXCEPT !.ret = "false"]
    ELSE LET lastEntry == st.undoHistory[Len(st.undoHistory)]
             popped == [st EXCEPT !.undoHistory = SubSeq(@, 1, Len(@) - 1)]
         IN  [setDocument(popped, lastEntry.content, FALSE) EXCEPT !.ret = "true"]

canUndo(st) == Len(st.undoHistory) > 0

clearUndoHistory(st) == [st EXCEPT !.undoHistory = <<>>]

(***************************************************************************)
(* simpleAgent.js: askAI                                                   *)
(***************************************************************************)
\* Lines 164-219 with the full-document replacement kept out of the history.
askAIFinishUnrecorded(st, response) ==
    IF hasLatexDiffs(response)
    THEN LET blocks == parseLatexDiff(response)
             previousContent == st.documentContent
             newContent == applyLatexDiffs(st.documentContent, blocks)
         IN  [st EXCEPT
               !.undoHistory = addToUndoHistory(@, previousContent,
                                                <<"Applied", Len(blocks), "diff changes">>),
               !.pushed = @ + 1,
               !.documentContent = newContent,
               !.notified = IF st.changeCallback # "null" THEN Append(@, newContent) ELSE @,
               !.ret = "documentUpdated"]
    ELSE IF latexMatch(response) # <<>>
    THEN [setDocument(st, latexMatch(response)[1].body, FALSE) EXCEPT !.ret = "documentUpdated"]
    ELSE [st EXCEPT !.ret = "notUpdated"]

\* Lines 164-219: what askAI does with the reply once the stream has ended.
askAIFinish(st, response) ==
    IF hasLatexDiffs(response)
    THEN LET blocks == parseLatexDiff(response)
             previousContent == st.documentContent
             newContent == applyLatexDiffs(st.documentContent, blocks)
         IN  [st EXCEPT
               !.undoHistory = addToUndoHistory(@, previousContent,
                                                <<"Applied", Len(blocks), "diff changes">>),
               !.pushed = @ + 1,
               !.documentContent = newContent,
               !.notified = IF st.changeCallback # "null" THEN Append(@, newContent) ELSE @,
               !.ret = "documentUpdated"]
    ELSE IF latexMatch(response) # <<>>
    THEN [setDocument(st, latexMatch(response)[1].body, TRUE) EXCEPT !.ret = "documentUpdated"]
    ELSE [st EXCEPT !.ret = "notUpdated"]

\* askAI that, when a read fails, applies what has arrived so far.
askAIReadSalvaging(st, response, ev) ==
    CASE ev.kind = "value" ->
           [st |-> st,
            fullResponse |-> IF ev.delta = <<>> THEN response
                             ELSE response \o ev.delta]
      [] ev.kind = "error" ->
           [st |-> [askAIFinish(st, response) EXCEPT !.threw = TRUE, !.ret = "undefined"],
            fullResponse |-> response]
      [] ev.kind = "done" ->
           [st |-> askAIFinish(st, response), fullResponse |-> response]

\* askAI applying every block as soon as it is complete: a value whose
\* delta completes a block writes the text with the blocks so far.
askAIReadEager(st, response, ev) ==
    CASE ev.kind = "value" ->
           LET grown == IF ev.delta = <<>> THEN response ELSE response \o ev.delta
           IN  [st |-> IF Len(parseLatexDiff(grown)) > Len(parseLatexDiff(response))
                       THEN [askAIFinish(st, grown) EXCEPT !.ret = "undefined"]
                       ELSE st,
                fullResponse |-> grown]
      [] ev.kind = "error" ->
           [st |-> [st EXCEPT !.threw = TRUE], fullResponse |-> response]
      [] ev.kind = "done" ->
           [st |-> askAIFinish(st, response), fullResponse |-> response]

\* Lines 132-224: one await reader.read() of askAI and what follows it.  A
\* value appends its delta (one with no content is skipped); an error leaves
\* through finally and catch, which rethrows; done runs lines 164-219.
askAIRead(st, response, ev) ==
    CASE ev.kind = "value" ->
           [st |-> st,
            fullResponse |-> IF ev.delta = <<>> THEN response
                             ELSE response \o ev.delta]
      [] ev.kind = "error" ->
           [st |-> [st EXCEPT !.threw = TRUE], fullResponse |-> response]
      [] ev.kind = "done" ->
           [st |-> askAIFinish(st, response), fullResponse |-> response]

\* Lines 60-126: the await fetch of askAI; a response that is not ok throws.
askAIResponse(st, ok) ==
    IF ok THEN st ELSE [st EXCEPT !.threw = TRUE]

(***************************************************************************)
(* LatexEditor.js, lines 164-235: handleSendMessage of the chat component  *)
(* that calls askAI.  A message is [id, role, content, isStreaming,        *)
(* isError, documentUpdated].                                              *)
(***************************************************************************)
message(id, role, content, streaming, isError) ==
    [id |-> id, role |-> role, content |-> content, isStreaming |-> streaming,
     isError |-> isError, documentUpdated |-> FALSE]

\* Lines 171-194: the user message, then the streaming assistant message.
sendMessages(msgs, userId, assistantId) ==
    msgs \o <<message(userId, "user", <<"user">>, FALSE, FALSE),
              message(assistantId, "assistant", <<>>, TRUE, FALSE)>>

\* Lines 197-204: the onChunk callback.
onChunk(msgs, id, response) ==
    [i \in 1..Len(msgs) |->
        IF msgs[i].id = id THEN [msgs[i] EXCEPT !.content = response] ELSE msgs[i]]

\* Lines 206-216: mark streaming as complete.
onResult(msgs, id, response, documentUpdated) ==
    [i \in 1..Len(msgs) |->
        IF msgs[i].id = id
        THEN [msgs[i] EXCEPT !.content = response, !.isStreaming = FALSE,
                             !.documentUpdated = documentUpdated]
        ELSE msgs[i]]

\* Lines 218-231: the catch block appends a new error message.
onError(msgs, id, errorId) ==
    Append(msgs, message(errorId, "assistant", <<"error">>, FALSE, TRUE))

(***************************************************************************)
(* The inputs the applicator is exercised on                               *)
(***************************************************************************)
MaxDocLines == 3    \* documents of the general inputs have up to this many lines
MaxBatch == 2       \* batches of the general inputs have up to this many records

\* Nine distinct one-character lines, so that a surviving line is recognisable.
SampleLines == <<"1", "2", "3", "4", "5", "6", "7", "8", "9">>

numbered(n) == join([i \in 1..n |-> <<SampleLines[i]>>])

\* The empty text (one empty line) and the texts of 1..MaxDocLines lines.
Documents == {<<>>} \cup {numbered(n) : n \in 1..MaxDocLines}

InsertContents == {<<>>, <<"x">>, <<"x", NL, "y">>}
\* 0 is an unset count; applicator, validator and preview all read it through
\* deleteCount || 1, so an explicit 1 takes the same path as 0.
DeleteCounts == {0, 2}

\* PatchRecords as parseLatexDiff builds them (operation, line, deleteCount,
\* insertContent); lines run up to one past the end of the text.
blocksFor(content) ==
    LET n == Len(split(content))
    IN  [operation : {"add"}, line : 1..(n + 1), deleteCount : {0},
         insertContent : InsertContents]
        \cup [operation : {"replace"}, line : 1..(n + 1), deleteCount : DeleteCounts,
              insertContent : InsertContents]
        \cup [operation : {"delete"}, line : 1..(n + 1), deleteCount : DeleteCounts,
              insertContent : {<<>>}]

\* Records whose line lies beyond one past the end of the text.
strayBlocksFor(content) ==
    LET n == Len(split(content))
    IN  [operation : {"add"}, line : (n + 2)..(n + 3), deleteCount : {0},
         insertContent : InsertContents]
        \cup [operation : {"replace"}, line : (n + 2)..(n + 3), deleteCount : DeleteCounts,
              insertContent : InsertContents]
        \cup [operation : {"delete"}, line : (n + 2)..(n + 3), deleteCount : DeleteCounts,
              insertContent : {<<>>}]

batchesFor(content) ==
    UNION {[1..k -> blocksFor(content)] : k \in 0..MaxBatch}

del(line, count) ==
    [operation |-> "delete", line |-> line, deleteCount |-> count, insertContent |-> <<>>]
add(line, text) ==
    [operation |-> "add", line |-> line, deleteCount |-> 0, insertContent |-> text]
rep(line, count, text) ==
    [operation |-> "replace", line |-> line, deleteCount |-> count, insertContent |-> text]

\* Scenarios A-D of the specification's testable properties.
Scenarios ==
    { <<numbered(5), <<del(3, 1)>> >>,
      <<numbered(5), <<add(3, <<"x", NL, "y">>)>> >>,
      <<numbered(9), <<rep(5, 2, <<"z">>)>> >>,
      <<numbered(7), <<del(7, 1), add(2, <<"A">>)>> >>,
      <<numbered(7), <<add(2, <<"A">>), del(7, 1)>> >> }

\* The module as loaded: let documentContent = '', changeCallback = null,
\* undoHistory = []; no call in flight; the chat component as first rendered.
noCall ==
    [op |-> "none", ret |-> "undefined", threw |-> FALSE, notified |-> <<>>,
     pushed |-> 0, before |-> <<>>, response |-> <<>>]

Constructed ==
    /\ documentContent = <<>>
    /\ changeCallback = "null"
    /\ undoHistory = <<>>
    /\ pc = "idle"
    /\ fullResponse = <<>>
    /\ pending = <<>>
    /\ prompt = <<>>
    /\ messages = <<>>
    /\ isLoading = FALSE
    /\ error = "null"
    /\ assistantMessageId = 0
    /\ lastCall = noCall
    /\ trail = [ok |-> TRUE, docs |-> <<>>]
    /\ calls = 0

\* No text parsed, no record validated or previewed, no stream read.
noMarkers == [hasLatexDiffs |-> FALSE, hasStreamingLatexDiffs |-> FALSE]
noChanges == [at |-> "never", list |-> <<>>]
noStream == [bytes |-> <<>>, read |-> 0, done |-> FALSE, onChunk |-> FALSE]

Unread ==
    /\ changes = noChanges
    /\ stream = noStream
    /\ chunkCalls = <<>>

Unprobed ==
    /\ segments = <<>>
    /\ markers = noMarkers
    /\ validation = <<>>
    /\ Unread

\* AIChat, useAI and latexAssistant as constructed: no request issued.
NoStream ==
    /\ isStreaming = FALSE
    /\ streamingMessageRef = <<>>
    /\ abortControllerRef = 0
    /\ aborted = {}
    /\ conversationHistory = <<>>
    /\ streams = <<>>

PureInit ==
    /\ Constructed
    /\ Unprobed
    /\ NoStream
    /\ \/ /\ originalContent \in Documents
          /\ diffBlocks \in batchesFor(originalContent)
       \/ \E sc \in Scenarios : originalContent = sc[1] /\ diffBlocks = sc[2]
       \/ /\ originalContent \in Documents
          /\ \E b \in strayBlocksFor(originalContent) : diffBlocks = <<b>>
    /\ applied = "no"
    /\ result = <<>>

\* const newContent = applyLatexDiffs(documentContent, diffBlocks)
Apply ==
    /\ applied = "no"
    /\ result' = applyLatexDiffs(originalContent, diffBlocks)
    /\ applied' = "yes"
    /\ UNCHANGED <<originalContent, diffBlocks, segments, markers, validation>>
    /\ UNCHANGED <<changes, stream, chunkCalls>>
    /\ UNCHANGED <<storeVars, turnVars, chatVars, useVars, bookVars>>

\* const preview = previewLatexDiffs(documentContent, diffBlocks), taken
\* before the batch is applied or after it.
Preview ==
    /\ changes.at = "never"
    /\ changes' = [at |-> IF applied = "no" THEN "before" ELSE "after",
                   list |-> previewLatexDiffs(originalContent, diffBlocks)]
    /\ UNCHANGED <<originalContent, diffBlocks, applied, result, segments, markers, validation>>
    /\ UNCHANGED <<stream, chunkCalls>>
    /\ UNCHANGED <<storeVars, turnVars, chatVars, useVars, bookVars>>

PureNext == Apply

SpecApply == PureInit /\ [][PureNext]_vars

\* The texts and batches the preview is taken of: texts of fewer lines, and
\* records that insert nothing or one line.
PreviewDocuments == {<<>>} \cup {numbered(n) : n \in 1..(MaxDocLines - 1)}

previewBatchesFor(content) ==
    LET blocks == {b \in blocksFor(content) : b.insertContent \in {<<>>, <<"x">>}}
    IN  UNION {[1..k -> blocks] : k \in 0..MaxBatch}

PreviewInit ==
    /\ Constructed
    /\ Unprobed
    /\ NoStream
    /\ originalContent \in PreviewDocuments
    /\ diffBlocks \in previewBatchesFor(originalContent)
    /\ applied = "no"
    /\ result = <<>>

PreviewNext == Apply \/ Preview

SpecPreview == PreviewInit /\ [][PreviewNext]_vars

(***************************************************************************)
(* Properties of the applicator                                            *)
(***************************************************************************)
lineCount(content) == Len(split(content))

distinctLines(blocks) ==
    \A i, j \in 1..Len(blocks) : i # j => blocks[i].line # blocks[j].line

reorderings(blocks) ==
    LET n == Len(blocks)
    IN  {[i \in 1..n |-> blocks[p[i]]] :
            p \in {q \in [1..n -> 1..n] : \A i, j \in 1..n : i # j => q[i] # q[j]}}

\* C2: for a batch whose records have pairwise distinct line values, every
\* reordering of the batch gives the same text as the batch itself.
BatchOrderIndependent ==
    (applied = "yes" /\ distinctLines(diffBlocks)) =>
        \A other \in reorderings(diffBlocks) :
            applyLatexDiffs(originalContent, other) = result

\* Scenario D in both orders: delete line 7 and add "A" at line 2 of seven lines.
BatchOrderWitness ==
    /\ applied = "yes"
    /\ originalContent = numbered(7)
    /\ diffBlocks = <<add(2, <<"A">>), del(7, 1)>>
    /\ result = <<"1", NL, "A", NL, "2", NL, "3", NL, "4", NL, "5", NL, "6">>

\* The lines a record removes, as line numbers of the original text, and the
\* lines it inserts.
removedBy(b) ==
    IF b.operation \in {"replace", "delete"}
    THEN b.line..(b.line + orOne(b.deleteCount) - 1) ELSE {}

insertedBy(b) ==
    IF b.operation \in {"add", "replace"} THEN insertLines(b.insertContent) ELSE <<>>

\* Every record validates, lines are pairwise distinct, removed ranges are
\* pairwise disjoint and no add points inside another record's removed range.
addressable(content, blocks) ==
    /\ \A i \in 1..Len(blocks) : validateDiffBlock(content, blocks[i]).valid
    /\ distinctLines(blocks)
    /\ \A i, j \in 1..Len(blocks) :
          i # j => /\ removedBy(blocks[i]) \cap removedBy(blocks[j]) = {}
                   /\ blocks[i].operation = "add" => blocks[i].line \notin removedBy(blocks[j])

\* Every edit performed at its line of the ORIGINAL text: walking the original
\* lines 1..n+1, first what a record inserts there, then the original line
\* unless some record removes it.
RECURSIVE editedFrom(_, _, _)
editedFrom(lines, blocks, i) ==
    IF i > Len(lines) + 1 THEN <<>>
    ELSE LET here == {k \in 1..Len(blocks) : blocks[k].line = i}
             ins  == IF here = {} THEN <<>> ELSE insertedBy(blocks[CHOOSE k \in here : TRUE])
             gone == \E k \in 1..Len(blocks) : i \in removedBy(blocks[k])
             kept == IF i <= Len(lines) /\ ~gone THEN <<lines[i]>> ELSE <<>>
         IN  ins \o kept \o editedFrom(lines, blocks, i + 1)

RECURSIVE totalInserted(_)
totalInserted(blocks) ==
    IF blocks = <<>> THEN 0
    ELSE Len(insertedBy(Head(blocks))) + totalInserted(Tail(blocks))

RECURSIVE totalRemoved(_)
totalRemoved(blocks) ==
    IF blocks = <<>> THEN 0
    ELSE Cardinality(removedBy(Head(blocks))) + totalRemoved(Tail(blocks))

expectedCount ==
    lineCount(originalContent) + totalInserted(diffBlocks) - totalRemoved(diffBlocks)

\* C3 as stated: the result is the original-coordinates edit and its line
\* count is |D| + inserted - removed.
BatchOriginalCoordinatesAsStated ==
    (applied = "yes" /\ addressable(originalContent, diffBlocks)) =>
        /\ result = join(editedFrom(split(originalContent), diffBlocks, 1))
        /\ lineCount(result) = expectedCount
        /\ diffBlocks = <<>> => result = originalContent

\* C3 (amended): the result is the original-coordinates edit; its line count
\* is |D| + inserted - removed, except that when every line is removed and
\* none is inserted the result is the empty text, which is one empty line.
BatchOriginalCoordinates ==
    (applied = "yes" /\ addressable(originalContent, diffBlocks)) =>
        /\ result = join(editedFrom(split(originalContent), diffBlocks, 1))
        /\ lineCount(result) = IF expectedCount = 0 THEN 1 ELSE expectedCount
        /\ expectedCount = 0 => result = <<>>
        /\ diffBlocks = <<>> => result = originalContent

\* A two-record batch on three lines: replace lines 2-3 by "x","y" and add
\* "x" before line 1.
BatchOriginalCoordinatesWitness ==
    /\ applied = "yes"
    /\ originalContent = numbered(3)
    /\ diffBlocks = <<add(1, <<"x">>), rep(2, 2, <<"x", NL, "y">>)>>
    /\ addressable(originalContent, diffBlocks)
    /\ result = <<"x", NL, "1", NL, "x", NL, "y">>

\* C4: a single valid record gives D[1..line-1], then the inserted lines, then
\* D[line+k..], with k = 0 for add and k = deleteCount (1 when unset) for
\* replace and delete; Scenarios A, B and C give 4, 7 and 8 lines.
SingleRecordSemantics ==
    (/\ applied = "yes"
     /\ Len(diffBlocks) = 1
     /\ validateDiffBlock(originalContent, diffBlocks[1]).valid) =>
        LET r == diffBlocks[1]
            D == split(originalContent)
            k == IF r.operation = "add" THEN 0
                 ELSE IF r.deleteCount = 0 THEN 1 ELSE r.deleteCount
            ins == IF r.operation = "delete" THEN <<>>
                   ELSE IF r.insertContent = <<>> THEN <<>> ELSE split(r.insertContent)
        IN  /\ result = join(SubSeq(D, 1, r.line - 1) \o ins \o SubSeq(D, r.line + k, Len(D)))
            /\ (originalContent = numbered(5) /\ r = del(3, 1)) =>
                   result = <<"1", NL, "2", NL, "4", NL, "5">> /\ lineCount(result) = 4
            /\ (originalContent = numbered(5) /\ r = add(3, <<"x", NL, "y">>)) =>
                   lineCount(result) = 7
            /\ (originalContent = numbered(9) /\ r = rep(5, 2, <<"z">>)) =>
                   lineCount(result) = 8

\* Scenario C: replace lines 5-6 of nine lines by "z".
SingleRecordWitness ==
    /\ applied = "yes"
    /\ originalContent = numbered(9)
    /\ diffBlocks = <<rep(5, 2, <<"z">>)>>
    /\ result = <<"1", NL, "2", NL, "3", NL, "4", NL, "z", NL, "7", NL, "8", NL, "9">>

(***************************************************************************)
(* The Document Store, the Undo Log and the askAI turn as a state machine  *)
(***************************************************************************)
MaxCalls == 2    \* calls that write the text or start a turn (initializeDocument, setDocument, applyDiffs, askAI)

MaxUndoDepth == 2    \* entries undone once a call has written the text: all of a short history, the newest of a long one

StoreDocs == {numbered(1), numbered(2)}

StoreBatches ==
    { <<>>,
      <<add(1, <<"x">>)>>,
      <<del(1, 0)>>,
      <<rep(1, 1, <<"1">>)>>,
      <<del(2, 1), add(1, <<"x">>)>> }

\* The key:value tokens of a record's fields.
operationToken(operation) ==
    CASE operation = "add" -> "operation:add"
      [] operation = "replace" -> "operation:replace"
      [] operation = "delete" -> "operation:delete"

lineToken(n) ==
    CASE n = 0 -> "line:0" [] n = 1 -> "line:1" [] n = 2 -> "line:2" [] n = 3 -> "line:3"
      [] n = 4 -> "line:4" [] n = 5 -> "line:5"

deleteToken(n) ==
    CASE n = 0 -> "delete:0" [] n = 1 -> "delete:1" [] n = 2 -> "delete:2"
      [] n = 3 -> "delete:3"

\* The metadata line of a record; a count of 0 is written with no delete: token.
metadataLine(block) ==
    <<AT, SP, operationToken(block.operation), SP, lineToken(block.line)>>
    \o (IF block.deleteCount = 0 THEN <<>> ELSE <<SP, deleteToken(block.deleteCount)>>)
    \o <<SP, AT, NL>>

\* The deltas of a reply: prose, a delta with no content, a complete
\* latex-diff block written for a record, the same block with its closing
\* fence missing, a complete block whose metadata has no line, and a
\* complete latex block.
text == <<"x", NL>>
empty == <<>>
bodyLines(body) == IF body = <<>> THEN <<>> ELSE body \o <<NL>>
diff(block) ==
    <<FENCE, "latex-diff", NL>> \o metadataLine(block) \o bodyLines(block.insertContent)
    \o <<FENCE, NL>>
unclosed(block) ==
    <<FENCE, "latex-diff", NL>> \o metadataLine(block) \o bodyLines(block.insertContent)
lineless(body) ==
    <<FENCE, "latex-diff", NL, AT, SP, "operation:add", SP, AT, NL>> \o bodyLines(body)
    \o <<FENCE, NL>>
latex(body) == <<FENCE, "latex", NL>> \o body \o <<NL, FENCE, NL>>

Replies ==
    { <<text>>,
      <<diff(add(1, <<"x">>)), text>>,
      <<diff(del(2, 1)), diff(rep(1, 0, <<"x", NL, "y">>))>>,
      <<diff(add(1, <<>>))>>,
      <<empty, latex(numbered(2))>>,
      <<unclosed(add(1, <<"x">>))>>,
      <<lineless(<<"y">>)>> }

\* A history of n entries as n successive changes leave it: the texts
\* alternate, so that every change was a change.
earlier(n) ==
    [i \in 1..n |->
        [content |-> IF i % 2 = 1 THEN numbered(1) ELSE numbered(2),
         description |-> <<"Document replaced">>]]

contents(history) == [i \in 1..Len(history) |-> history[i].content]

\* Histories the store starts from: empty, and full.
InitHistorySizes == {0, MAX_UNDO_HISTORY}

Init ==
    /\ originalContent = <<>>
    /\ diffBlocks = <<>>
    /\ applied = "no"
    /\ result = <<>>
    /\ Unprobed
    /\ NoStream
    /\ \/ Constructed
       \/ /\ \E n \in InitHistorySizes : undoHistory = earlier(n)
          /\ documentContent \in StoreDocs
          /\ undoHistory # <<>> => documentContent # undoHistory[Len(undoHistory)].content
          /\ changeCallback = "page"
          /\ pc = "idle"
          /\ fullResponse = <<>>
          /\ pending = <<>>
          /\ prompt = <<>>
          /\ messages = <<>>
          /\ isLoading = FALSE
          /\ error = "null"
          /\ assistantMessageId = 0
          /\ lastCall = noCall
          /\ trail = [ok |-> TRUE, docs |-> contents(undoHistory)]
          /\ calls = 0

\* The module's state as an operation takes it.
store ==
    [documentContent |-> documentContent, changeCallback |-> changeCallback,
     undoHistory |-> undoHistory, notified |-> <<>>, pushed |-> 0,
     ret |-> "undefined", threw |-> FALSE]

\* The module's variables after an operation, and the record of the call.
CommitAskAI(st, op, ret, response) ==
    /\ documentContent' = st.documentContent
    /\ changeCallback' = st.changeCallback
    /\ undoHistory' = st.undoHistory
    /\ lastCall' = [op |-> op, ret |-> ret, threw |-> st.threw, notified |-> st.notified,
                    pushed |-> st.pushed, before |-> documentContent,
                    response |-> response]

Commit(st, op, ret) == CommitAskAI(st, op, ret, <<>>)

fresh == [ok |-> TRUE, docs |-> <<>>]

\* trail after an operation that may change the text and push: a change of
\* the text extends the trail by the text it replaced, up to MAX_UNDO_HISTORY
\* changes; a push without a change, or a change without a push, ends it.
trailAfter(st) ==
    LET changed == st.documentContent # documentContent
    IN  IF ~trail.ok THEN trail
        ELSE IF changed /\ st.pushed = 1 /\ Len(trail.docs) < MAX_UNDO_HISTORY
        THEN [trail EXCEPT !.docs = Append(@, documentContent)]
        ELSE IF ~changed /\ st.pushed = 0 THEN trail
        ELSE [trail EXCEPT !.ok = FALSE]

\* page.js, lines 79-85 and 95-104: on mount and on every editor keystroke.
InitializeDocument ==
    \E content \in StoreDocs :
        /\ Commit(initializeDocument(store, content, "page"), "initializeDocument", "undefined")
        /\ trail' = IF undoHistory = <<>> THEN fresh ELSE [trail EXCEPT !.ok = FALSE]
        /\ calls < MaxCalls /\ calls' = calls + 1
        /\ UNCHANGED <<pureVars, useVars, turnVars, chatVars>>

\* export function setDocument(newContent, addToHistory = true)
SetDocumentCall(newContent, addToHistory) ==
    LET st == setDocument(store, newContent, addToHistory)
    IN  /\ calls < MaxCalls
        /\ Commit(st, "setDocument", st.ret)
        /\ trail' = trailAfter(st)
        /\ calls' = calls + 1
        /\ UNCHANGED <<pureVars, useVars, turnVars, chatVars>>

SetDocument ==
    \E newContent \in StoreDocs, addToHistory \in BOOLEAN :
        SetDocumentCall(newContent, addToHistory)

ApplyDiffs ==
    \E blocks \in StoreBatches :
        LET st == applyDiffs(store, blocks)
        IN  /\ calls < MaxCalls
            /\ Commit(st, "applyDiffs", st.ret)
            /\ trail' = trailAfter(st)
            /\ calls' = calls + 1
            /\ UNCHANGED <<pureVars, useVars, turnVars, chatVars>>

UndoLastChange ==
    LET st == undoLastChange(store)
    IN  /\ \/ calls = 0
           \/ Len(undoHistory) <= MaxUndoDepth
           \/ Len(undoHistory) > MAX_UNDO_HISTORY - MaxUndoDepth
        /\ Commit(st, "undoLastChange", st.ret)
        /\ trail' = IF trail.ok
                    THEN [trail EXCEPT !.docs = SubSeq(@, 1, Len(@) - 1)]
                    ELSE IF st.undoHistory = <<>> THEN fresh ELSE trail
        /\ UNCHANGED <<pureVars, useVars, turnVars, chatVars, calls>>

CanUndo ==
    /\ Commit(store, "canUndo", IF canUndo(store) THEN "true" ELSE "false")
    /\ UNCHANGED <<pureVars, useVars, turnVars, chatVars, trail, calls>>

ClearUndoHistory ==
    /\ Commit(clearUndoHistory(store), "clearUndoHistory", "undefined")
    /\ trail' = fresh
    /\ UNCHANGED <<pureVars, useVars, turnVars, chatVars, calls>>

\* askAI up to its await fetch.  One call is in flight at a time: the chat
\* component calls askAI only while isLoading is false.
AskAIStart(reply) ==
    /\ pc = "idle"
    /\ calls < MaxCalls
    /\ pc' = "fetching"
    /\ fullResponse' = <<>>
    /\ pending' = reply
    /\ prompt' = documentContent
    /\ calls' = calls + 1
    /\ UNCHANGED <<pureVars, useVars, storeVars, lastCall, trail>>

ResponseOkStep ==
    LET st == askAIResponse(store, TRUE)
    IN  /\ pc = "fetching"
        /\ pc' = "reading"
        /\ CommitAskAI(st, "askAI", "pending", fullResponse)
        /\ trail' = trailAfter(st)
        /\ UNCHANGED <<pureVars, useVars, fullResponse, pending, prompt, calls>>

ResponseNotOkStep ==
    LET st == askAIResponse(store, FALSE)
    IN  /\ pc = "fetching"
        /\ pc' = "idle"
        /\ CommitAskAI(st, "askAI", st.ret, fullResponse)
        /\ trail' = trailAfter(st)
        /\ fullResponse' = <<>>
        /\ pending' = <<>>
        /\ prompt' = <<>>
        /\ UNCHANGED <<pureVars, useVars, calls>>

ReadValueStep ==
    LET r == askAIRead(store, fullResponse, [kind |-> "value", delta |-> Head(pending)])
    IN  /\ pc = "reading"
        /\ pending # <<>>
        /\ fullResponse' = r.fullResponse
        /\ pending' = Tail(pending)
        /\ CommitAskAI(r.st, "askAI", "pending", r.fullResponse)
        /\ trail' = trailAfter(r.st)
        /\ UNCHANGED <<pureVars, useVars, pc, prompt, calls>>

ReadErrorStep ==
    LET r == askAIRead(store, fullResponse, [kind |-> "error"])
    IN  /\ pc = "reading"
        /\ pc' = "idle"
        /\ CommitAskAI(r.st, "askAI", r.st.ret, r.fullResponse)
        /\ trail' = trailAfter(r.st)
        /\ fullResponse' = <<>>
        /\ pending' = <<>>
        /\ prompt' = <<>>
        /\ UNCHANGED <<pureVars, useVars, calls>>

ReadDoneStep ==
    LET r == askAIRead(store, fullResponse, [kind |-> "done"])
    IN  /\ pc = "reading"
        /\ pending = <<>>
        /\ pc' = "idle"
        /\ CommitAskAI(r.st, "askAI", r.st.ret, r.fullResponse)
        /\ trail' = trailAfter(r.st)
        /\ fullResponse' = <<>>
        /\ pending' = <<>>
        /\ prompt' = <<>>
        /\ UNCHANGED <<pureVars, useVars, calls>>

\* askAI called with no chat component attached (onChunk undefined).
AskAI == (\E reply \in Replies : AskAIStart(reply)) /\ UNCHANGED chatVars
ResponseOk == ResponseOkStep /\ UNCHANGED chatVars
ResponseNotOk == ResponseNotOkStep /\ UNCHANGED chatVars
ReadValue == ReadValueStep /\ UNCHANGED chatVars
ReadError == ReadErrorStep /\ UNCHANGED chatVars
ReadDone == ReadDoneStep /\ UNCHANGED chatVars

Next ==
    \/ InitializeDocument
    \/ SetDocument
    \/ ApplyDiffs
    \/ UndoLastChange
    \/ CanUndo
    \/ ClearUndoHistory
    \/ AskAI
    \/ ResponseOk
    \/ ResponseNotOk
    \/ ReadValue
    \/ ReadError
    \/ ReadDone

Spec == Init /\ [][Next]_vars

(***************************************************************************)
(* Document Store and Undo Log: properties                                 *)
(***************************************************************************)
\* The last call applied a patch batch: applyDiffs, or a turn that ended in
\* askAI's patch branch.
patchApplied ==
    \/ lastCall.op = "applyDiffs"
    \/ /\ lastCall.op = "askAI"
       /\ lastCall.ret = "documentUpdated"
       /\ hasLatexDiffs(lastCall.response)

\* C1 as stated: after a patch batch applied by applyDiffs or by askAI's
\* patch branch to a document D, an immediately following undoLastChange
\* leaves the store holding D, whatever the undo history held before.
UndoRoundTripAsStated ==
    [][(patchApplied /\ UndoLastChange) => documentContent' = lastCall.before]_vars

\* C1, amended: the undo that immediately follows a patch batch restores the
\* text D the batch was applied to whenever the apply recorded D (askAI's
\* patch branch always does, applyDiffs does when the batch changed the text)
\* or the undo history is empty.
UndoRoundTrip ==
    [][(patchApplied /\ (lastCall.pushed = 1 \/ undoHistory = <<>>) /\ UndoLastChange)
          => documentContent' = lastCall.before]_vars

\* An undo has just taken back a patch (the text before the undo holds an
\* inserted line "x", which only a patch produces) that was applied on a full
\* history: the push evicted an entry and the undo left 19.
UndoRoundTripWitness ==
    /\ lastCall.op = "undoLastChange"
    /\ lastCall.ret = "true"
    /\ \E i \in 1..Len(lastCall.before) : lastCall.before[i] = "x"
    /\ documentContent \in StoreDocs
    /\ Len(undoHistory) = MAX_UNDO_HISTORY - 1

\* A step of an operation that pushed onto the undo history.
pushStep ==
    /\ lastCall'.pushed = 1
    /\ SetDocument \/ ApplyDiffs \/ ReadDone

\* C5: the undo history never holds more than 20 entries, and a push onto a
\* history of 20 evicts exactly the oldest entry: the 19 most recent entries
\* stay, in order, followed by the new one (the text that was replaced).
UndoLogBound ==
    /\ [](Len(undoHistory) <= MAX_UNDO_HISTORY)
    /\ [][pushStep =>
            /\ undoHistory'[Len(undoHistory')].content = documentContent
            /\ IF Len(undoHistory) = MAX_UNDO_HISTORY
               THEN /\ Len(undoHistory') = MAX_UNDO_HISTORY
                    /\ SubSeq(undoHistory', 1, MAX_UNDO_HISTORY - 1) = Tail(undoHistory)
               ELSE SubSeq(undoHistory', 1, Len(undoHistory')  - 1) = undoHistory]_vars

\* A push has just happened on the full history earlier(20): entry 2 of it
\* (the text "1\n2") is now the oldest.
UndoLogBoundWitness ==
    /\ lastCall.pushed = 1
    /\ Len(undoHistory) = MAX_UNDO_HISTORY
    /\ SubSeq(undoHistory, 1, MAX_UNDO_HISTORY - 1) = Tail(earlier(MAX_UNDO_HISTORY))

\* The number of successive calls of undoLastChange after which canUndo() is
\* false, counted up to fuel + 1.
RECURSIVE undosToEmpty(_, _)
undosToEmpty(st, fuel) ==
    IF ~canUndo(st) THEN 0
    ELSE IF fuel = 0 THEN 1
    ELSE 1 + undosToEmpty(undoLastChange(st), fuel - 1)

\* C6: undoLastChange never pushes onto the undo history; an undo that
\* returns true removes exactly the newest entry, one that returns false
\* found the history empty; and from every reachable state repeated undos
\* leave canUndo() false after at most 20 calls (after as many as the
\* history has entries).
NoUndoLoop ==
    /\ [](/\ undosToEmpty(store, MAX_UNDO_HISTORY) <= MAX_UNDO_HISTORY
          /\ undosToEmpty(store, MAX_UNDO_HISTORY) = Len(undoHistory))
    /\ [][UndoLastChange =>
            /\ lastCall'.pushed = 0
            /\ lastCall'.ret = "true" =>
                   undoHistory' = SubSeq(undoHistory, 1, Len(undoHistory) - 1)
            /\ lastCall'.ret = "false" => undoHistory = <<>> /\ undoHistory' = <<>>]_vars

\* An undo has just succeeded on a full history.
NoUndoLoopWitness ==
    /\ lastCall.op = "undoLastChange"
    /\ lastCall.ret = "true"
    /\ lastCall.pushed = 0
    /\ Len(undoHistory) = MAX_UNDO_HISTORY - 1

\* C7: while trail holds the texts D0..D(k-1) that k <= 20 successive changes
\* of the document replaced, the undo history holds exactly these texts,
\* oldest first; each undoLastChange then returns true and restores the
\* newest of them, D(k-1) first and D0 last, and with none left returns false.
UndoIsAStack ==
    /\ [](trail.ok => contents(undoHistory) = trail.docs)
    /\ [][(trail.ok /\ UndoLastChange) =>
            IF trail.docs = <<>>
            THEN lastCall'.ret = "false" /\ documentContent' = documentContent
            ELSE /\ lastCall'.ret = "true"
                 /\ documentContent' = trail.docs[Len(trail.docs)]
                 /\ trail'.docs = SubSeq(trail.docs, 1, Len(trail.docs) - 1)]_vars

\* The last of 20 undos in a row that took back 20 recorded changes: no text
\* was written since the start (calls = 0), the history is empty and the
\* undo returned true, restoring D0.
UndoIsAStackWitness ==
    /\ trail.ok
    /\ trail.docs = <<>>
    /\ calls = 0
    /\ undoHistory = <<>>
    /\ lastCall.op = "undoLastChange"
    /\ lastCall.ret = "true"
    /\ documentContent = earlier(MAX_UNDO_HISTORY)[1].content

\* C8: undoLastChange on an empty history returns false, does not throw,
\* leaves the text and the history as they are and does not call the
\* observer; canUndo() returns true exactly when the history is non-empty;
\* after clearUndoHistory canUndo() is false.
UndoOnEmpty ==
    /\ [][(undoHistory = <<>> /\ UndoLastChange) =>
            /\ lastCall'.ret = "false"
            /\ ~lastCall'.threw
            /\ lastCall'.notified = <<>>
            /\ UNCHANGED storeVars]_vars
    /\ [][CanUndo => (lastCall'.ret = "true" <=> undoHistory # <<>>)]_vars
    /\ [][ClearUndoHistory => ~canUndo([undoHistory |-> undoHistory'])]_vars

\* undoLastChange has just returned false with an observer registered.
UndoOnEmptyWitness ==
    /\ lastCall.op = "undoLastChange"
    /\ lastCall.ret = "false"
    /\ changeCallback = "page"
    /\ undoHistory = <<>>

\* C9: when the model call fails (a response that is not ok, or a read that
\* fails, also after complete patch blocks have arrived), askAI throws and
\* the text, the undo history and the observer registration are as before
\* the call; no undo entry was pushed and the observer was not called.
FailureLeavesNoTrace ==
    [][(ResponseNotOk \/ ReadError) =>
          /\ lastCall'.op = "askAI"
          /\ lastCall'.threw
          /\ lastCall'.pushed = 0
          /\ lastCall'.notified = <<>>
          /\ UNCHANGED storeVars]_vars

\* A read has just failed after a complete patch block had arrived, with an
\* observer registered and a text the block would have changed.
FailureLeavesNoTraceWitness ==
    /\ lastCall.op = "askAI"
    /\ lastCall.threw
    /\ hasLatexDiffs(lastCall.response)
    /\ changeCallback = "page"
    /\ applyLatexDiffs(documentContent, parseLatexDiff(lastCall.response)) # documentContent

\* A turn has just ended with askAI returning.
turnReturned ==
    /\ lastCall.op = "askAI"
    /\ lastCall.ret \in {"documentUpdated", "notUpdated"}

\* The reply yields no patch record and holds no complete latex block.
conversationOnly(response) ==
    /\ parseLatexDiff(response) = <<>>
    /\ latexMatch(response) = <<>>

\* C13: a turn whose final reply yields no patch record and holds no
\* full-document block leaves the text as it was, pushes no undo entry, does
\* not call the observer and returns documentUpdated false.
ConversationTurnDoesNothing ==
    (turnReturned /\ conversationOnly(lastCall.response)) =>
        /\ documentContent = lastCall.before
        /\ lastCall.pushed = 0
        /\ lastCall.notified = <<>>
        /\ lastCall.ret = "notUpdated"

\* The newest entry of the history holds the text, and the entries under it
\* are the newest of the history before.
pushedOnto(history, content, after) ==
    /\ after # <<>>
    /\ after[Len(after)].content = content
    /\ Len(after) = Min(Len(history) + 1, MAX_UNDO_HISTORY)
    /\ \A i \in 1..(Len(after) - 1) :
          after[Len(after) - i] = history[Len(history) + 1 - i]

\* C14: setDocument(newText, addToHistory) with addToHistory true and a text
\* that differs pushes one entry holding the text being replaced, replaces
\* the text, and hands the new text to the observer once; with an equal text
\* or addToHistory false it pushes nothing.
SetDocumentProtocol ==
    [][\A newContent \in StoreDocs, addToHistory \in BOOLEAN :
          SetDocumentCall(newContent, addToHistory) =>
              /\ documentContent' = newContent
              /\ lastCall'.notified = (IF changeCallback = "null" THEN <<>> ELSE <<newContent>>)
              /\ IF addToHistory /\ newContent # documentContent
                 THEN /\ lastCall'.pushed = 1
                      /\ pushedOnto(undoHistory, documentContent, undoHistory')
                 ELSE /\ lastCall'.pushed = 0
                      /\ undoHistory' = undoHistory]_vars

\* setDocument has replaced the text of a store with an observer and a full
\* history, and the entry pushed holds the text replaced.
SetDocumentProtocolWitness ==
    /\ lastCall.op = "setDocument"
    /\ lastCall.pushed = 1
    /\ documentContent # lastCall.before
    /\ Len(undoHistory) = MAX_UNDO_HISTORY
    /\ undoHistory[Len(undoHistory)].content = lastCall.before
    /\ lastCall.notified = <<documentContent>>

\* A turn has just ended whose reply has no patch marker and holds a
\* complete latex block.
fullDocumentTurn ==
    /\ turnReturned
    /\ ~hasLatexDiffs(lastCall.response)
    /\ latexMatch(lastCall.response) # <<>>

\* The turn pushed one entry holding the text it replaced, and one undo
\* brings that text back.
recordedOnce ==
    /\ lastCall.pushed = 1
    /\ undoHistory # <<>>
    /\ undoHistory[Len(undoHistory)].content = lastCall.before
    /\ undoLastChange(store).documentContent = lastCall.before

\* C15 as stated: a full-document turn sets the text to the body of the
\* block, pushes exactly one entry holding the prior text, returns
\* documentUpdated true, and one undo restores the prior text.
FullDocumentTurnAsStated ==
    fullDocumentTurn =>
        /\ documentContent = latexMatch(lastCall.response)[1].body
        /\ lastCall.ret = "documentUpdated"
        /\ recordedOnce

\* C15: a full-document turn sets the text to the body of the block and
\* returns documentUpdated true; when the body differs from the text it
\* replaces, exactly one entry holding that text is pushed and one undo
\* restores it; when the body equals the text, nothing is pushed.
FullDocumentTurn ==
    fullDocumentTurn =>
        /\ documentContent = latexMatch(lastCall.response)[1].body
        /\ lastCall.ret = "documentUpdated"
        /\ IF documentContent # lastCall.before THEN recordedOnce ELSE lastCall.pushed = 0

FullDocumentTurnWitness ==
    /\ fullDocumentTurn
    /\ documentContent # lastCall.before
    /\ lastCall.pushed = 1
    /\ Len(undoHistory) = MAX_UNDO_HISTORY

\* A step of a turn after its start and before the stream has ended, or one
\* that ends it with an error.
turnStep == ResponseOk \/ ResponseNotOk \/ ReadValue \/ ReadError

\* The stream ends on a reply that holds patch records.
batchStep == ReadDone /\ parseLatexDiff(fullResponse) # <<>>

SendMessage ==
    \E reply \in Replies :
        /\ ~isLoading
        /\ AskAIStart(reply)
        /\ messages' = sendMessages(messages, Len(messages) + 1, Len(messages) + 2)
        /\ assistantMessageId' = Len(messages) + 2
        /\ isLoading' = TRUE
        /\ error' = "null"

\* askAI throws: the catch and finally blocks of handleSendMessage.
ChatCatch ==
    /\ messages' = onError(messages, assistantMessageId, Len(messages) + 1)
    /\ error' = "AI API Error"
    /\ isLoading' = FALSE
    /\ UNCHANGED assistantMessageId

ChatResponseOk == ResponseOkStep /\ UNCHANGED chatVars

ChatResponseNotOk == ResponseNotOkStep /\ ChatCatch

ChatReadValue ==
    /\ ReadValueStep
    /\ messages' = IF Head(pending) = <<>> THEN messages
                   ELSE onChunk(messages, assistantMessageId, fullResponse')
    /\ UNCHANGED <<isLoading, error, assistantMessageId>>

ChatReadError == ReadErrorStep /\ ChatCatch

ChatReadDone ==
    /\ ReadDoneStep
    /\ messages' = onResult(messages, assistantMessageId, fullResponse,
                            lastCall'.ret = "documentUpdated")
    /\ isLoading' = FALSE
    /\ UNCHANGED <<error, assistantMessageId>>

\* LatexEditor.js, lines 426-428: clearChat.
ClearChat ==
    /\ messages # <<>>
    /\ messages' = <<>>
    /\ UNCHANGED <<pureVars, useVars, storeVars, turnVars, isLoading, error, assistantMessageId,
                   bookVars>>

ChatInit ==
    /\ originalContent = <<>>
    /\ diffBlocks = <<>>
    /\ applied = "no"
    /\ result = <<>>
    /\ Unprobed
    /\ NoStream
    /\ Constructed

ChatNext ==
    \/ InitializeDocument
    \/ UndoLastChange
    \/ SendMessage
    \/ ChatResponseOk
    \/ ChatResponseNotOk
    \/ ChatReadValue
    \/ ChatReadError
    \/ ChatReadDone
    \/ ClearChat

SpecChat == ChatInit /\ [][ChatNext]_vars

\* A turn has ended with askAI throwing: the handler's catch and finally
\* blocks have run and no turn is in flight.
errorTurnEnded ==
    /\ pc = "idle"
    /\ lastCall.op = "askAI"
    /\ lastCall.threw

\* C10: after a model-call error the turn is over with the input enabled
\* again (isLoading false), the error marker is on the assistant message
\* that was in progress, and no message is still flagged isStreaming.
ErrorEndsTurn ==
    errorTurnEnded =>
        /\ ~isLoading
        /\ \A i \in 1..Len(messages) :
              /\ ~messages[i].isStreaming
              /\ messages[i].id = assistantMessageId => messages[i].isError

(***************************************************************************)
(* parseLatexDiff and the marker predicates on drawn texts                 *)
(***************************************************************************)
MaxSegments == 3    \* texts handed to the parser are made of up to this many pieces

\* A complete block whose metadata has a line and no operation.
operationless(body) ==
    <<FENCE, "latex-diff", NL, AT, SP, "line:1", SP, AT, NL>> \o bodyLines(body)
    \o <<FENCE, NL>>

\* streamingStages[1] of the streaming test: the fence is open and the
\* metadata line has its opening @@ only.
forming == <<FENCE, "latex-diff", NL, AT, SP, "operation:add">>

\* The pieces of a text: prose, a complete block written for a record (one
\* of them with line:0, one a delete with a body), a complete block that
\* lacks operation or line, a complete latex block, a block with no closing
\* fence, and a block still forming.
piece(kind, written, chars) == [kind |-> kind, written |-> written, text |-> chars]
block(b) == piece("block", <<b>>, diff(b))

ParseSegments ==
    { piece("prose", <<>>, text),
      block(add(1, <<"x">>)),
      block(rep(2, 1, <<"x", NL, "y">>)),
      block(del(1, 2)),
      block(del(2, 0)),
      block(del(3, 0)),
      block(add(0, <<"x">>)),
      block([del(1, 1) EXCEPT !.insertContent = <<"x">>]),
      piece("malformed", <<>>, lineless(<<"y">>)),
      piece("malformed", <<>>, operationless(<<"y">>)),
      piece("latex", <<>>, latex(<<"y">>)),
      piece("unclosed", <<>>, unclosed(add(1, <<"x">>))),
      piece("forming", <<>>, forming) }

RECURSIVE concat(_)
concat(pieces) ==
    IF pieces = <<>> THEN <<>> ELSE Head(pieces).text \o concat(Tail(pieces))

ParseInit ==
    /\ Constructed
    /\ segments \in UNION {[1..k -> ParseSegments] : k \in 1..MaxSegments}
    /\ originalContent \in Documents
    /\ diffBlocks = <<>>
    /\ applied = "no"
    /\ result = <<>>
    /\ markers = noMarkers
    /\ validation = <<>>
    /\ Unread
    /\ NoStream

\* testStreamingDiff on one stage: hasStreamingLatexDiffs(content), then the
\* parser; hasLatexDiffs is the test askAI makes of the same text.
Parse ==
    /\ applied = "no"
    /\ markers' = [hasLatexDiffs |-> hasLatexDiffs(concat(segments)),
                   hasStreamingLatexDiffs |-> hasStreamingLatexDiffs(concat(segments))]
    /\ diffBlocks' = parseLatexDiff(concat(segments))
    /\ applied' = "parsed"
    /\ UNCHANGED <<originalContent, result, segments, validation>>
    /\ UNCHANGED <<changes, stream, chunkCalls>>
    /\ UNCHANGED <<storeVars, turnVars, chatVars, useVars, bookVars>>

\* testDeleteOperations: if (diffBlocks.length > 0) applyLatexDiffs(sampleLatex, diffBlocks)
ApplyParsed ==
    /\ applied = "parsed"
    /\ diffBlocks # <<>>
    /\ result' = applyLatexDiffs(originalContent, diffBlocks)
    /\ applied' = "yes"
    /\ UNCHANGED <<originalContent, diffBlocks, segments, markers, validation>>
    /\ UNCHANGED <<changes, stream, chunkCalls>>
    /\ UNCHANGED <<storeVars, turnVars, chatVars, useVars, bookVars>>

ParseNext == Parse \/ ApplyParsed

SpecParse == ParseInit /\ [][ParseNext]_vars

parsed == applied \in {"parsed", "yes"}

\* C18: for the text made of an opened latex-diff fence and a metadata line
\* with no closing @@, hasStreamingLatexDiffs and hasLatexDiffs return true
\* while parseLatexDiff returns no record.
FormingBlockIsMarked ==
    (parsed /\ segments = <<piece("forming", <<>>, forming)>>) =>
        /\ markers.hasStreamingLatexDiffs
        /\ markers.hasLatexDiffs
        /\ diffBlocks = <<>>

\* Every piece of the text is complete: prose or a closed block.
complete == \A i \in 1..Len(segments) : segments[i].kind \in {"prose", "block", "malformed", "latex"}

\* The record a well-formed block is written for, as the grammar reads it: a
\* delete with no delete token removes one line.
recordOf(b) ==
    [operation |-> b.operation,
     line |-> b.line,
     deleteCount |-> IF b.operation = "delete" /\ b.deleteCount = 0 THEN 1 ELSE b.deleteCount,
     insertContent |-> b.insertContent]

\* The blocks the pieces were written for, left to right.
RECURSIVE writtenIn(_)
writtenIn(pieces) ==
    IF pieces = <<>> THEN <<>> ELSE Head(pieces).written \o writtenIn(Tail(pieces))

\* C19: of a text made of complete pieces, parseLatexDiff returns one record
\* for every well-formed block, in the order of the blocks, whatever blocks
\* lacking operation or line stand between them; those give no record.
MalformedSkippedLocally ==
    (parsed /\ complete) =>
        /\ Len(diffBlocks) = Len(writtenIn(segments))
        /\ \A i \in 1..Len(diffBlocks) : diffBlocks[i] = recordOf(writtenIn(segments)[i])

MalformedSkippedLocallyWitness ==
    /\ parsed
    /\ complete
    /\ Len(segments) = 3
    /\ segments[1].kind = "block"
    /\ segments[2].kind = "malformed"
    /\ segments[3].kind = "block"
    /\ Len(diffBlocks) = 2

\* The text holds one block, a delete with no delete token.
tokenlessDelete(i) ==
    /\ segments[i].kind = "block"
    /\ segments[i].written[1].operation = "delete"
    /\ segments[i].written[1].deleteCount = 0

oneTokenlessDelete ==
    /\ complete
    /\ Len(writtenIn(segments)) = 1
    /\ \E i \in 1..Len(segments) : tokenlessDelete(i)

\* C20: every delete block with no delete token is parsed with deleteCount 1,
\* and applying the record to a text that has its line removes that line and
\* no other.
DeleteDefaultsToOne ==
    /\ (parsed /\ complete) =>
          \A i \in 1..Len(diffBlocks) :
              (writtenIn(segments)[i].operation = "delete"
               /\ writtenIn(segments)[i].deleteCount = 0) => diffBlocks[i].deleteCount = 1
    /\ (applied = "yes" /\ oneTokenlessDelete
        /\ writtenIn(segments)[1].line <= lineCount(originalContent)) =>
          result = join(splice(split(originalContent), writtenIn(segments)[1].line - 1, 1, <<>>))

DeleteDefaultsToOneWitness ==
    /\ applied = "yes"
    /\ oneTokenlessDelete
    /\ writtenIn(segments)[1].line = 2
    /\ originalContent = numbered(3)
    /\ diffBlocks = <<del(2, 1)>>
    /\ split(result) = <<split(originalContent)[1], split(originalContent)[3]>>

(***************************************************************************)
(* validateDiffBlock on drawn texts and records                            *)
(***************************************************************************)
\* Records with a line from 0 to two past the end of the text and a count
\* from 0 (unset) to one more than the text has lines.
recordsFor(content) ==
    LET n == Len(split(content))
    IN  [operation : {"add", "replace", "delete"}, line : 0..(n + 2),
         deleteCount : 0..(n + 1), insertContent : {<<>>, <<"x">>}]

ValidateInit ==
    /\ Constructed
    /\ Unprobed
    /\ NoStream
    /\ originalContent \in Documents
    /\ \E r \in recordsFor(originalContent) : diffBlocks = <<r>>
    /\ applied = "no"
    /\ result = <<>>

\* validateDiffBlock(content, diffBlock), for each record of the batch
Validate ==
    /\ applied = "no"
    /\ validation' = [i \in 1..Len(diffBlocks) |-> validateDiffBlock(originalContent, diffBlocks[i])]
    /\ applied' = "validated"
    /\ UNCHANGED <<originalContent, diffBlocks, result, segments, markers>>
    /\ UNCHANGED <<changes, stream, chunkCalls>>
    /\ UNCHANGED <<storeVars, turnVars, chatVars, useVars, bookVars>>

ValidateNext == Validate

SpecValidate == ValidateInit /\ [][ValidateNext]_vars

\* The range a record addresses lies in the text: 1 <= line <= lineCount + 1
\* and, for replace and delete, line + deleteCount - 1 <= lineCount, a count
\* of 0 read as 1.
inRange(content, r) ==
    /\ 1 <= r.line
    /\ r.line <= lineCount(content) + 1
    /\ r.operation \in {"replace", "delete"} =>
          r.line + (IF r.deleteCount = 0 THEN 1 ELSE r.deleteCount) - 1 <= lineCount(content)

\* C17: validateDiffBlock returns valid exactly for the records in range, and
\* a non-empty list of reasons for the others; it returns (it does not
\* throw) and leaves the text, the record and the store as they were.
ValidatorContract ==
    /\ [](applied = "validated" =>
            /\ Len(validation) = Len(diffBlocks)
            /\ \A i \in 1..Len(diffBlocks) :
                  /\ validation[i].valid <=> inRange(originalContent, diffBlocks[i])
                  /\ validation[i].valid <=> (validation[i].errors = <<>>))
    /\ [][Validate => UNCHANGED <<originalContent, diffBlocks, storeVars>>]_vars

\* A replace of two lines starting at the last line is refused with a reason,
\* and an add one past the end is accepted.
ValidatorContractWitness ==
    /\ applied = "validated"
    /\ originalContent = numbered(2)
    /\ \/ /\ diffBlocks = <<rep(2, 2, <<"x">>)>>
          /\ ~validation[1].valid
          /\ validation[1].errors # <<>>
       \/ /\ diffBlocks = <<add(3, <<"x">>)>>
          /\ validation[1].valid

(***************************************************************************)
(* The chat component of AIChat.js streaming through the useAI hook.  A    *)
(* request r is the r-th call of handleSendMessage that reached            *)
(* askQuestionStream; its handler, the generator of useAI, the generator   *)
(* of latexAssistant and the network stream under them make one entry of   *)
(* streams.  A chunk is [request, n]: the n-th chunk of the request.       *)
(* A click, a network read and everything that runs in its microtasks is   *)
(* one step.                                                               *)
(***************************************************************************)
MaxChunks == 2    \* a stream delivers up to this many chunks

chunk(r, n) == [request |-> r, n |-> n]

\* The texts of request r that are no chunks: the question typed, and the
\* error text the handler shows.
question(r) == <<chunk(r, 0)>>
apology(r) == <<chunk(r, -1)>>

\* The ids handleSendMessage gives to its two messages (Date.now() and
\* Date.now() + 1), taken from a clock that advances with every send.
userMessageId(r) == 2 * r - 1
assistantId(r) == 2 * r

\* this.conversationHistory.push({ role, content }), the last 20 kept.
addToHistory(history, role, content, r) ==
    LET pushed == Append(history, [role |-> role, content |-> content, request |-> r])
    IN  IF Len(pushed) > 20 THEN SubSeq(pushed, Len(pushed) - 19, Len(pushed)) ELSE pushed

inFlight == {r \in 1..Len(streams) : streams[r].phase # "ended"}

\* AIChat.js, lines 86-90: the content of the assistant message of the handler.
setContent(msgs, id, content) ==
    [i \in 1..Len(msgs) |->
        IF msgs[i].id = id THEN [msgs[i] EXCEPT !.content = content] ELSE msgs[i]]

\* AIChat.js, lines 94-98: mark streaming as complete.
markComplete(msgs, id) ==
    [i \in 1..Len(msgs) |->
        IF msgs[i].id = id THEN [msgs[i] EXCEPT !.isStreaming = FALSE] ELSE msgs[i]]

\* AIChat.js, lines 104-113: the catch block writes the error into the
\* assistant message of the handler.
markError(msgs, id, content) ==
    [i \in 1..Len(msgs) |->
        IF msgs[i].id = id
        THEN [msgs[i] EXCEPT !.content = content, !.isError = TRUE, !.isStreaming = FALSE]
        ELSE msgs[i]]

\* AIChat.js, line 132: prev.filter(msg => !msg.isStreaming)
RECURSIVE notStreaming(_)
notStreaming(msgs) ==
    IF msgs = <<>> THEN <<>>
    ELSE (IF Head(msgs).isStreaming THEN <<>> ELSE <<Head(msgs)>>) \o notStreaming(Tail(msgs))

called(op) == [noCall EXCEPT !.op = op]

\* handleSendMessage up to its first await: the guard, the two messages, and
\* through the first next() of the generators: setIsLoading(true), a new
\* AbortController, and the fetch of chatCompletion.
StreamSend ==
    \E total \in 1..MaxChunks :
        LET r == Len(streams) + 1
        IN  /\ ~isLoading
            /\ ~isStreaming
            /\ calls < MaxCalls
            /\ messages' = messages \o
                  <<message(userMessageId(r), "user", question(r), FALSE, FALSE),
                    message(assistantId(r), "assistant", <<>>, TRUE, FALSE)>>
            /\ isStreaming' = TRUE
            /\ streamingMessageRef' = <<>>
            /\ isLoading' = TRUE
            /\ error' = "null"
            /\ abortControllerRef' = r
            /\ streams' = Append(streams, [phase |-> "fetching", total |-> total,
                                           delivered |-> 0, fullResponse |-> <<>>,
                                           cancelledAt |-> -1])
            /\ calls' = calls + 1
            /\ lastCall' = called("handleSendMessage")
            /\ UNCHANGED <<pureVars, storeVars, turnVars, assistantMessageId, aborted,
                           conversationHistory, trail>>

\* The generators of request r end: finally of useAI's askQuestionStream,
\* then what the handler does after its loop, then the handler's finally.
streamEnds(r, msgs) ==
    /\ isLoading' = FALSE
    /\ abortControllerRef' = 0
    /\ messages' = msgs
    /\ isStreaming' = FALSE
    /\ streamingMessageRef' = <<>>

\* await fetch resolves with an ok response.
StreamResponseOk ==
    \E r \in inFlight :
        /\ streams[r].phase = "fetching"
        /\ streams' = [streams EXCEPT ![r].phase = "reading"]
        /\ lastCall' = called("chatCompletion")
        /\ UNCHANGED <<pureVars, storeVars, turnVars, chatVars, isStreaming,
                       streamingMessageRef, abortControllerRef, aborted,
                       conversationHistory, trail, calls>>

\* The fetch fails, the response is not ok, or a read fails: latexAssistant
\* rethrows, useAI sets error and rethrows, the handler's catch runs.
StreamError ==
    \E r \in inFlight :
        /\ streams' = [streams EXCEPT ![r].phase = "ended"]
        /\ error' = "Failed to get AI response"
        /\ streamEnds(r, markError(messages, assistantId(r), apology(r)))
        /\ lastCall' = called("handleSendMessage")
        /\ UNCHANGED <<pureVars, storeVars, turnVars, assistantMessageId, aborted,
                       conversationHistory, trail, calls>>

\* A chunk of request r arrives: latexAssistant adds it to fullResponse and
\* yields it; useAI breaks if the controller in abortControllerRef is
\* aborted, and yields it otherwise; the handler appends it to
\* streamingMessageRef and shows the buffer in its assistant message.
StreamChunk ==
    \E r \in inFlight :
        LET c == chunk(r, streams[r].delivered + 1)
        IN  /\ streams[r].phase = "reading"
            /\ streams[r].delivered < streams[r].total
            /\ IF abortControllerRef # 0 /\ abortControllerRef \in aborted
               THEN /\ streams' = [streams EXCEPT ![r].phase = "ended",
                                                  ![r].delivered = @ + 1,
                                                  ![r].fullResponse = Append(@, c)]
                    /\ streamEnds(r, markComplete(messages, assistantId(r)))
               ELSE /\ streams' = [streams EXCEPT ![r].delivered = @ + 1,
                                                  ![r].fullResponse = Append(@, c)]
                    /\ streamingMessageRef' = Append(streamingMessageRef, c)
                    /\ messages' = setContent(messages, assistantId(r),
                                              Append(streamingMessageRef, c))
                    /\ UNCHANGED <<isLoading, isStreaming, abortControllerRef>>
            /\ lastCall' = called("chunk")
            /\ UNCHANGED <<pureVars, storeVars, turnVars, error, assistantMessageId,
                           aborted, conversationHistory, trail, calls>>

\* The stream of request r ends: latexAssistant adds the question and the
\* reply to the conversation history, the generators return, the handler
\* marks its message complete.
StreamDone ==
    \E r \in inFlight :
        /\ streams[r].phase = "reading"
        /\ streams[r].delivered = streams[r].total
        /\ streams' = [streams EXCEPT ![r].phase = "ended"]
        /\ conversationHistory' =
              addToHistory(addToHistory(conversationHistory, "user", question(r), r),
                           "assistant", streams[r].fullResponse, r)
        /\ streamEnds(r, markComplete(messages, assistantId(r)))
        /\ lastCall' = called("handleSendMessage")
        /\ UNCHANGED <<pureVars, storeVars, turnVars, error, assistantMessageId,
                       aborted, trail, calls>>

\* handleCancelStream, behind the button shown while isStreaming:
\* cancelRequest() aborts the controller in abortControllerRef, if any, and
\* sets isLoading false; then isStreaming false and the streaming messages
\* are removed.  cancelledAt notes how many chunks each request in flight
\* had delivered.
HandleCancelStream ==
    /\ isStreaming
    /\ aborted' = IF abortControllerRef # 0 THEN aborted \cup {abortControllerRef} ELSE aborted
    /\ isLoading' = FALSE
    /\ isStreaming' = FALSE
    /\ messages' = notStreaming(messages)
    /\ streams' = [r \in 1..Len(streams) |->
                      IF r \in inFlight /\ streams[r].cancelledAt = -1
                      THEN [streams[r] EXCEPT !.cancelledAt = streams[r].delivered]
                      ELSE streams[r]]
    /\ lastCall' = called("handleCancelStream")
    /\ UNCHANGED <<pureVars, storeVars, turnVars, error, assistantMessageId,
                   streamingMessageRef, abortControllerRef, conversationHistory,
                   trail, calls>>

\* clearChat: setMessages([])
StreamClearChat ==
    /\ messages # <<>>
    /\ messages' = <<>>
    /\ lastCall' = called("clearChat")
    /\ UNCHANGED <<pureVars, storeVars, turnVars, isLoading, error, assistantMessageId,
                   useVars, trail, calls>>

StreamInit ==
    /\ originalContent = <<>>
    /\ diffBlocks = <<>>
    /\ applied = "no"
    /\ result = <<>>
    /\ Unprobed
    /\ NoStream
    /\ Constructed

StreamNext ==
    \/ StreamSend
    \/ StreamResponseOk
    \/ StreamError
    \/ StreamChunk
    \/ StreamDone
    \/ HandleCancelStream
    \/ StreamClearChat

SpecStream == StreamInit /\ [][StreamNext]_vars

\* The requests the user cancelled while they were in flight.
cancelled == {r \in 1..Len(streams) : streams[r].cancelledAt # -1}

\* The chunks request r delivered after it was cancelled.
lateChunks(r) ==
    {chunk(r, n) : n \in (streams[r].cancelledAt + 1)..streams[r].delivered}

holds(chunks, c) == \E i \in 1..Len(chunks) : chunks[i] = c

\* C11: a cancellation leaves the session idle with the streaming assistant
\* message removed; no chunk the cancelled stream delivers afterwards gets
\* into the buffer or into a displayed message, the conversation history
\* gains no entry of the cancelled turn, and the document is not touched.
CancelLeavesNoTrace ==
    /\ lastCall.op = "handleCancelStream" =>
          /\ ~isLoading
          /\ ~isStreaming
          /\ \A i \in 1..Len(messages) : ~messages[i].isStreaming
    /\ \A r \in cancelled :
          /\ \A c \in lateChunks(r) :
                /\ ~holds(streamingMessageRef, c)
                /\ \A i \in 1..Len(messages) : ~holds(messages[i].content, c)
          /\ \A i \in 1..Len(conversationHistory) : conversationHistory[i].request # r
    /\ documentContent = <<>>
    /\ undoHistory = <<>>

\* C12: at most one model request is in flight at any time.
OneRequestInFlight == Cardinality(inFlight) <= 1

(***************************************************************************)
(* The records of parseLatexDiff                                           *)
(***************************************************************************)
\* C21: every record parseLatexDiff returns has a line of at least 1,
\* whatever the line token of its block carried.
PatchRecordLine ==
    parsed => \A i \in 1..Len(diffBlocks) : diffBlocks[i].line >= 1

\* C22: every delete record parseLatexDiff returns has an empty
\* insertContent, whatever stood between the metadata line and the closing
\* fence of its block.
PatchRecordDelete ==
    parsed => \A i \in 1..Len(diffBlocks) :
                 diffBlocks[i].operation = "delete" => diffBlocks[i].insertContent = <<>>

(***************************************************************************)
(* The previews of a batch                                                 *)
(***************************************************************************)
validBatch ==
    \A i \in 1..Len(diffBlocks) : validateDiffBlock(originalContent, diffBlocks[i]).valid

\* The lines of the original text a record removes: none for an add, lines
\* line..line+deleteCount-1 for a replace or a delete.
takenOut(record) ==
    IF record.operation = "add" THEN <<>>
    ELSE SubSeq(split(originalContent), record.line,
                record.line + orOne(record.deleteCount) - 1)

shows(change, record) ==
    /\ change.operation = record.operation
    /\ change.line = record.line
    /\ change.before = takenOut(record)

\* C23: for a batch whose records all validate, previewLatexDiffs returns one
\* change per record; the change of a replace or delete has as before the
\* original lines line..line+deleteCount-1 and the change of an add has an
\* empty before; applyLatexDiffs leaves the text and the batch as they were,
\* so the previews are these whether taken before the apply or after it.
PreviewShowsRemovedLines ==
    /\ []((changes.at # "never" /\ validBatch) =>
            /\ Len(changes.list) = Len(diffBlocks)
            /\ \A i \in 1..Len(diffBlocks) :
                  \E j \in 1..Len(changes.list) : shows(changes.list[j], diffBlocks[i]))
    /\ [][Apply => UNCHANGED <<originalContent, diffBlocks, changes>>]_vars

\* A preview taken after the apply of a valid batch of an add and a
\* two-line replace that changed the text.
PreviewShowsRemovedLinesWitness ==
    /\ changes.at = "after"
    /\ validBatch
    /\ applied = "yes"
    /\ result # originalContent
    /\ Len(diffBlocks) = 2
    /\ diffBlocks[1].operation = "add"
    /\ diffBlocks[2].operation = "replace"
    /\ diffBlocks[2].deleteCount = 2
    /\ \E j \in 1..2 : Len(changes.list[j].before) = 2

linesOf(content) == {split(content)[i] : i \in 1..Len(split(content))}

\* The original lines that are not in the result, the lines the previews list
\* as removed, and the lines the records insert.
missingLines == linesOf(originalContent) \ linesOf(result)
previewedLines ==
    UNION {{changes.list[j].before[k] : k \in 1..Len(changes.list[j].before)} :
             j \in 1..Len(changes.list)}
insertedLines ==
    UNION {{insertLines(diffBlocks[i].insertContent)[k] :
              k \in 1..Len(insertLines(diffBlocks[i].insertContent))} :
             i \in {i \in 1..Len(diffBlocks) : diffBlocks[i].operation # "delete"}}

\* C26: for a text of distinct lines and a batch whose records each validate
\* against it, the original lines missing from applyLatexDiffs' result are
\* exactly the lines of the previews' before slices, and every line a record
\* inserts is in the result; overlapping ranges included.
PreviewRefinesApply ==
    (applied = "yes" /\ changes.at # "never" /\ validBatch /\ originalContent # <<>>) =>
        /\ missingLines = previewedLines
        /\ insertedLines \subseteq linesOf(result)

(***************************************************************************)
(* Records of equal line                                                   *)
(***************************************************************************)
twoOfEqualLine ==
    /\ applied = "yes"
    /\ Len(diffBlocks) = 2
    /\ diffBlocks[1].line = diffBlocks[2].line

twoAddsOfEqualLine ==
    /\ twoOfEqualLine
    /\ diffBlocks[1].operation = "add"
    /\ diffBlocks[2].operation = "add"

\* C29: two records of equal line are spliced in input order at the same
\* index; for two adds of the same line the text of the later record ends up
\* immediately before the text of the earlier one, both before original
\* line `line`.
EqualLinesInInputOrder ==
    /\ twoOfEqualLine =>
          result = join(applyBlock(applyBlock(split(originalContent), diffBlocks[1]),
                                   diffBlocks[2]))
    /\ twoAddsOfEqualLine =>
          LET lines == split(originalContent)
              at == diffBlocks[1].line
          IN  result = join(SubSeq(lines, 1, at - 1)
                            \o insertLines(diffBlocks[2].insertContent)
                            \o insertLines(diffBlocks[1].insertContent)
                            \o SubSeq(lines, at, Len(lines)))

\* Two adds at line 2 of a three-line text, "x" first and "x", "y" second.
EqualLinesInInputOrderWitness ==
    /\ twoAddsOfEqualLine
    /\ originalContent = numbered(3)
    /\ diffBlocks[1] = add(2, <<"x">>)
    /\ diffBlocks[2] = add(2, <<"x", NL, "y">>)
    /\ result = <<"1", NL, "x", NL, "y", NL, "x", NL, "2", NL, "3">>

(***************************************************************************)
(* A single record, in range or not                                        *)
(***************************************************************************)
singleRecord == applied = "yes" /\ Len(diffBlocks) = 1 /\ diffBlocks[1].line >= 1

\* The record reaches beyond the last line of the text.
pastTheEnd ==
    diffBlocks[1].line + orOne(diffBlocks[1].deleteCount) - 1 > lineCount(originalContent)

\* C30: applying a single record with line >= 1, valid or not, leaves lines
\* 1..line-1 of the text as they were; a delete or replace that runs past
\* the end removes the existing lines from `line` to the end and nothing
\* else (a replace putting its lines there); an add with line > lineCount+1
\* appends its lines at the end.
SingleRecordFrame ==
    singleRecord =>
        LET lines == split(originalContent)
            b == diffBlocks[1]
            kept == Min(b.line - 1, Len(lines))
        IN  /\ Len(split(result)) >= kept
            /\ SubSeq(split(result), 1, kept) = SubSeq(lines, 1, kept)
            /\ (b.operation \in {"delete", "replace"} /\ pastTheEnd) =>
                  result = join(SubSeq(lines, 1, kept)
                                \o (IF b.operation = "replace"
                                    THEN insertLines(b.insertContent) ELSE <<>>))
            /\ (b.operation = "add" /\ b.line > Len(lines) + 1) =>
                  result = join(lines \o insertLines(b.insertContent))

\* A two-line replace from the last line of a three-line text, which the
\* validator refuses.
SingleRecordFrameWitness ==
    /\ singleRecord
    /\ originalContent = numbered(3)
    /\ diffBlocks[1] = rep(3, 2, <<"x">>)
    /\ ~validateDiffBlock(originalContent, diffBlocks[1]).valid
    /\ result = <<"1", NL, "2", NL, "x">>

(***************************************************************************)
(* The patch-batch turn: validation, and the text the batch is applied to  *)
(***************************************************************************)
\* The stream ends on a batch with a record validateDiffBlock refuses for
\* the text the batch is applied to.
refusedBatchStep ==
    /\ batchStep
    /\ \E i \in 1..Len(parseLatexDiff(fullResponse)) :
          ~validateDiffBlock(documentContent, parseLatexDiff(fullResponse)[i]).valid

\* C24: when the stream ends on a patch batch, validateDiffBlock has been run
\* for every parsed record against the text the batch is applied to by the
\* time the batch is applied, a refused record included, and the batch is
\* applied all the same.
BatchValidatedThenApplied ==
    [][refusedBatchStep =>
         LET blocks == parseLatexDiff(fullResponse)
         IN  /\ validation' = [i \in 1..Len(blocks) |->
                                 validateDiffBlock(documentContent, blocks[i])]
             /\ documentContent' = applyLatexDiffs(documentContent, blocks)]_vars

\* C25: in every interleaving the text a patch batch is applied to when the
\* stream ends is the text that was line-numbered into the prompt when the
\* turn started; a keystroke during the stream does not change the text the
\* records are spliced into.
BatchAppliedToPromptedText ==
    [][batchStep =>
         /\ documentContent = prompt
         /\ documentContent' = applyLatexDiffs(prompt, parseLatexDiff(fullResponse))]_vars

(***************************************************************************)
(* Keystrokes and the undo history                                         *)
(***************************************************************************)
newest(history) == history[Len(history)]

\* The last call was a keystroke, and the newest undo entry is that of a
\* patch batch an earlier turn applied.
typedAfterBatch ==
    /\ lastCall.op = "initializeDocument"
    /\ undoHistory # <<>>
    /\ newest(undoHistory).description[1] = "Applied"

\* C27: initializeDocument replaces the text and the observer, pushes no undo
\* entry, removes none and does not call the observer; a turn that changed
\* the text leaves the text it replaced as the newest entry; so an
\* undoLastChange that follows keystrokes restores the newest entry the
\* history held before them and removes it.
KeystrokesKeepUndoHistory ==
    /\ [][InitializeDocument =>
            /\ undoHistory' = undoHistory
            /\ lastCall'.pushed = 0
            /\ lastCall'.notified = <<>>
            /\ documentContent' \in StoreDocs
            /\ changeCallback' = "page"
            /\ undoLastChange(store').undoHistory = undoLastChange(store).undoHistory
            /\ undoHistory # <<>> =>
                  undoLastChange(store').documentContent
                      = undoLastChange(store).documentContent]_vars
    /\ []((turnReturned /\ lastCall.pushed = 1) =>
            newest(undoHistory).content = lastCall.before)
    /\ [][(UndoLastChange /\ lastCall.op = "initializeDocument" /\ undoHistory # <<>>) =>
            /\ documentContent' = newest(undoHistory).content
            /\ undoHistory' = SubSeq(undoHistory, 1, Len(undoHistory) - 1)
            /\ lastCall'.ret = "true"]_vars

\* A keystroke that changed the text after a turn applied a patch batch.
KeystrokesKeepUndoHistoryWitness ==
    /\ typedAfterBatch
    /\ documentContent # lastCall.before

(***************************************************************************)
(* simpleAgent.js: the reader loop of askAI on the bytes of an event stream *)
(***************************************************************************)
MaxDeltas == 2    \* an event stream carries up to this many deltas with content

\* The lexemes of an event stream: the field name, the two halves of the
\* JSON text of the k-th delta, and the end marker.  Delta 0 is the opening
\* delta, which has a role and an empty content.
DATA == "data: "
DONE == "[DONE]"
Heads == <<"{1", "{2", "{3", "{4">>
Tails == <<"1}", "2}", "3}", "4}">>
Contents == <<"a", "b", "c", "d">>
head(k) == IF k = 0 THEN "{0" ELSE Heads[k]
tail(k) == IF k = 0 THEN "0}" ELSE Tails[k]
contentOf(k) == IF k = 0 THEN <<>> ELSE <<Contents[k]>>

\* data: {..delta k..}\n\n
event(k) == <<DATA, head(k), tail(k), NL, NL>>

RECURSIVE events(_)
events(n) == IF n = 0 THEN event(0) ELSE events(n - 1) \o event(n)

\* What the model endpoint sends for a reply of n deltas.
bytesOf(n) == events(n) \o <<DATA, DONE, NL, NL>>

\* The contents of the deltas of a stream, in order.
RECURSIVE deltasOf(_)
deltasOf(n) == IF n = 0 THEN <<>> ELSE deltasOf(n - 1) \o contentOf(n)

\* JSON.parse(data) and json.choices?.[0]?.delta?.content || '': the text
\* parses when it is the whole JSON text of a delta.
jsonParse(data) ==
    LET whole == {k \in 0..Len(Heads) : data = <<head(k), tail(k)>>}
    IN  IF whole = {} THEN [ok |-> FALSE, content |-> <<>>]
        ELSE [ok |-> TRUE, content |-> contentOf(CHOOSE k \in whole : TRUE)]

\* The body of for (const line of lines): acc is fullResponse and the calls
\* of onChunk so far; listener tells whether askAI was given the callback.
readLine(acc, line, listener) ==
    IF line # <<>> /\ line[1] = DATA
    THEN LET data == Tail(line)
             json == jsonParse(data)
         IN  IF data = <<DONE>> THEN acc
             ELSE IF json.ok /\ json.content # <<>>
             THEN [fullResponse |-> acc.fullResponse \o json.content,
                   chunkCalls |-> IF listener
                                  THEN Append(acc.chunkCalls,
                                              [content |-> json.content,
                                               fullResponse |-> acc.fullResponse
                                                                \o json.content])
                                  ELSE acc.chunkCalls]
             ELSE acc
    ELSE acc

RECURSIVE readLines(_, _, _)
readLines(acc, lines, listener) ==
    IF lines = <<>> THEN acc
    ELSE readLines(readLine(acc, Head(lines), listener), Tail(lines), listener)

\* One turn of while (true) for a value: chunk.split('\n') and the for loop.
readChunk(acc, value, listener) == readLines(acc, split(value), listener)

\* The stream as fetch hands it over: nothing read yet.
ReadInit ==
    /\ Constructed
    /\ NoStream
    /\ originalContent = <<>>
    /\ diffBlocks = <<>>
    /\ applied = "no"
    /\ result = <<>>
    /\ segments = <<>>
    /\ markers = noMarkers
    /\ validation = <<>>
    /\ changes = noChanges
    /\ \E n \in 1..MaxDeltas, listener \in BOOLEAN :
          stream = [noStream EXCEPT !.bytes = bytesOf(n), !.onChunk = listener]
    /\ chunkCalls = <<>>

\* await reader.read() returns the next bytes, as many as the transport
\* happens to deliver in one read.
ReadBytes ==
    /\ ~stream.done
    /\ \E n \in 1..(Len(stream.bytes) - stream.read) :
          LET value == SubSeq(stream.bytes, stream.read + 1, stream.read + n)
              acc == readChunk([fullResponse |-> fullResponse, chunkCalls |-> chunkCalls],
                               value, stream.onChunk)
          IN  /\ stream' = [stream EXCEPT !.read = @ + n]
              /\ fullResponse' = acc.fullResponse
              /\ chunkCalls' = acc.chunkCalls
    /\ UNCHANGED <<originalContent, diffBlocks, applied, result, segments, markers,
                   validation, changes>>
    /\ UNCHANGED <<storeVars, pc, pending, prompt, chatVars, useVars, bookVars>>

\* await reader.read() returns done: break.
ReadEnd ==
    /\ ~stream.done
    /\ stream.read = Len(stream.bytes)
    /\ stream' = [stream EXCEPT !.done = TRUE]
    /\ UNCHANGED <<originalContent, diffBlocks, applied, result, segments, markers,
                   validation, changes, chunkCalls>>
    /\ UNCHANGED <<storeVars, turnVars, chatVars, useVars, bookVars>>

ReadNext == ReadBytes \/ ReadEnd

SpecRead == ReadInit /\ [][ReadNext]_vars

\* The deltas the stream carries: one event per delta before the end marker.
sent == deltasOf((Len(stream.bytes) - 4) \div 5 - 1)

\* C28: whatever way the transport splits the bytes into reads, when the
\* stream has ended the reply askAI accumulated is the concatenation, in
\* order, of the content of every delta sent, and each call of onChunk got
\* the content of one delta and a buffer that extends the buffer of the call
\* before by exactly that content.
ReplyIsEveryDelta ==
    /\ stream.done => fullResponse = sent
    /\ (stream.done /\ stream.onChunk) => Len(chunkCalls) = Len(sent)
    /\ \A i \in 1..Len(chunkCalls) :
          chunkCalls[i].fullResponse
              = (IF i = 1 THEN <<>> ELSE chunkCalls[i - 1].fullResponse)
                \o chunkCalls[i].content

====
